---- MODULE Spec2Model ----
(***************************************************************************)
(* chatluna-group-analysis: the message retrieval and persistence core.    *)
(*                                                                         *)
(*   SpecFetch    MessageService.getHistoricalMessages and its three       *)
(*                strategies (OneBot paging, Bot API paging, database).    *)
(*   SpecLive     the live-message path: listener filter, ring cache,      *)
(*                adaptive persistence buffer, durable writes, shutdown.   *)
(*   SpecPersona  AnalysisService's threshold-triggered persona analysis.  *)
(*                                                                         *)
(* Every await of the TypeScript source is a step boundary: an action is   *)
(* the synchronous run of a handler from one await to the next.            *)
(***************************************************************************)
EXTENDS Integers, Sequences, FiniteSets, TLC

VARIABLES
    \* ---- configuration (Config) and environment
    listenerGroups,     \* config.listenerGroups, in table order
    enableAllGroupsByDefault,
    alwaysPersistMessages,
    userFilter,         \* config.userFilter: excluded from group analysis
    personaUserFilter,  \* config.personaUserFilter: excluded from personas
    bots,               \* ctx.bots: the online bot instances
    history,            \* the platform's message history of the group
    pageCap,            \* most messages the platform returns per request
    store,              \* table chatluna_messages: a set of rows, key id
    \* ---- one getHistoricalMessages call
    filter,             \* the MessageFilter argument
    fetchPc,            \* where the call is suspended
    source,             \* strategies entered, and backends answering, in the call
    isRunningLagrange,  \* result of the isLagrangeBot probe
    messages,           \* messages / allMessages accumulated by the loop
    fetchedCount,
    cursor,             \* messageSeq (OneBot) or nextId (Bot API); 0 = latest
    oldestMsg,          \* time of oldestMsg, NoMsg when null
    queryRounds,
    requests,           \* page requests issued by the call
    outcome,            \* "pending", "resolved" or "rejected"
    thrown,             \* a request of the call threw
    result,             \* the list the call resolved to
    \* ---- the live-message path (MessageService)
    now,                \* Date.now(), ms
    traffic,            \* the live traffic explored: "burst", "mixed", "flood"
    delivered,          \* 'message' events emitted so far
    ingested,           \* events handled by handleMessage so far
    messageCache,       \* Map cacheKey -> StoredMessage[], newest first
    activityStats,      \* Map key -> ActivityStats
    persistenceBuffers, \* Map key -> PersistenceBuffer
    writes,             \* database.upsert calls in flight
    notified,           \* Map event -> the run of the registered handlers
                        \* for it: the calls made and whether it rejected
    messageHandlers,    \* the handlers registered with onUserMessage
    disposed,           \* the 'dispose' event has fired
    flushAll,           \* flushAllBuffers: "idle", "running" or "done"
    \* ---- history of the live path, read only by the properties
    log,                \* per ingested event: the StoredMessage built for
                        \* it and the first event of its activity window
    pushed,             \* events ever appended to a persistence buffer
    handedSingle,       \* events handed to a single-message upsert
    handedBatch,        \* events handed to a buffer-flush upsert
    doubleHanded,       \* some event was handed to a second upsert
    flushedAtShutdown,  \* events handed to an upsert by flushAllBuffers
    landed,             \* events whose upsert succeeded
    failures,           \* upserts that threw
    lastEvent,          \* the latest event and whether it was handled
    \* ---- persona trigger (AnalysisService)
    personaAnalysisMessageInterval,
    personaCache,       \* Map recordId -> PersonaCache object
    cacheObjs,          \* the PersonaCache objects: pendingMessages of each
    personaProcessing,  \* Set of recordIds under analysis
    lookups,            \* handlers awaiting ensurePersonaCache's select
    analyses,           \* runPersonaAnalysis executions in flight
    runsStarted,        \* per recordId: analyses started by the trigger
    heldBack,           \* history: the runs during which a message reached
                        \* the threshold and started nothing
    personaEvents,      \* live messages delivered to the persona handler
    personaCalls,       \* manual refresh commands and persona reads issued
    personaTable,       \* recordIds with a persona row in the database table
    \* ---- functions and commands applied on their own
    call                \* the latest application: what was applied, to
                        \* what, and what it returned

cfgVars == <<listenerGroups, enableAllGroupsByDefault, alwaysPersistMessages,
             userFilter, personaUserFilter, bots, history, pageCap>>
fetchVars == <<filter, fetchPc, source, isRunningLagrange, messages,
               fetchedCount, cursor, oldestMsg, queryRounds, requests,
               outcome, thrown, result>>
liveVars == <<now, traffic, delivered, ingested, messageCache, activityStats,
              persistenceBuffers, writes, notified, messageHandlers,
              disposed, flushAll, log, pushed, handedSingle, handedBatch, doubleHanded,
              flushedAtShutdown, landed, failures, lastEvent>>
personaVars == <<personaAnalysisMessageInterval, personaCache, cacheObjs,
                 personaProcessing, lookups, analyses, runsStarted, heldBack,
                 personaEvents,
                 personaCalls, personaTable>>
vars == <<cfgVars, store, fetchVars, liveVars, personaVars, call>>

(***************************************************************************)
(* Bounds of the model.                                                    *)
(***************************************************************************)
MaxHist == 2        \* messages in the platform history / the table
Times == 1..3       \* message times, in seconds
StartTimes == 1..2  \* filter.startTime, in seconds; endTime is 1 s later
Limits == 1..2      \* filter.limit
PageCaps == 1..2    \* most messages the platform returns per request

(***************************************************************************)
(* Program constants.                                                      *)
(***************************************************************************)
OneBotPageCount == 50       \* requestPackage.count
LagrangePageCount == 30     \* requestPackage.count under Lagrange
DefaultLimit == 100         \* filter.limit || 100

NoMsg == 0 - 1
Users == {"u1", "u2"}

Min(a, b) == IF a <= b THEN a ELSE b

\* A JavaScript Map as a function on the keys it holds.
EmptyMap == [k \in {} |-> 0]
MapSet(m, k, v) == [x \in (DOMAIN m) \cup {k} |-> IF x = k THEN v ELSE m[x]]
MapDelete(m, k) == [x \in (DOMAIN m) \ {k} |-> m[x]]

Reverse(s) == [i \in 1..Len(s) |-> s[Len(s) + 1 - i]]

\* Array.prototype.slice(0, n)
Take(s, n) == SubSeq(s, 1, Min(n, Len(s)))

(***************************************************************************)
(* Listener rules and bots of the deployments explored.                    *)
(***************************************************************************)
Rule(p) == [enabled |-> TRUE, platform |-> p, selfId |-> "bot1",
            channelId |-> "c1", guildId |-> "g1"]

BotOf(p, gml, lag) == [platform |-> p, selfId |-> "bot1",
                       getMessageList |-> gml, lagrange |-> lag]

Deployments ==
    { <<(<<Rule("onebot")>>), {BotOf("onebot", FALSE, FALSE)}>>,
      <<(<<Rule("onebot")>>), {BotOf("onebot", FALSE, TRUE)}>>,
      <<(<<Rule("onebot")>>), {BotOf("onebot", TRUE, FALSE)}>>,
      <<(<<Rule("onebot")>>), {}>>,
      <<(<<Rule("discord")>>), {BotOf("discord", TRUE, FALSE)}>>,
      <<(<<Rule("discord")>>), {BotOf("discord", FALSE, FALSE)}>>,
      <<(<<>>), {BotOf("onebot", FALSE, FALSE)}>> }

ExclusionConfigs ==
    { <<{}, {}>>, <<{"u1"}, {}>>, <<{"u1"}, {"u2"}>>, <<{}, {"u1"}>> }

\* A platform message: who sent it, when, and whether its raw content holds
\* one of config.wordsFilter's words.
MsgBodies == { [userId |-> "u1", bad |-> FALSE], [userId |-> "u2", bad |-> FALSE],
               [userId |-> "u1", bad |-> TRUE] }

\* Histories in the order the platform holds them: message_seq is the
\* position, times do not decrease along it.
Histories ==
    UNION { { h \in [1..n -> [body : MsgBodies, time : Times]] :
                \A i \in 1..(n - 1) : h[i].time <= h[i + 1].time }
            : n \in 0..MaxHist }

Filters ==
    { [guildId |-> "g1", channelId |-> "c1", selfId |-> "bot1",
       userIdGiven |-> ug[1], userId |-> ug[2],
       startTime |-> st * 1000, endTime |-> (st + 1) * 1000,
       limit |-> lim, offset |-> 0, purpose |-> p] :
        ug \in { <<FALSE, {}>>, <<TRUE, {"u1"}>> },
        st \in StartTimes,
        lim \in Limits,
        p \in {"group-analysis", "user-persona", "none"} }

\* The row a platform message of the group is stored as.
RowOf(h, i) ==
    [id |-> <<"discord", i>>, platform |-> "discord", selfId |-> "bot1",
     channelId |-> "c1", guildId |-> "g1", userId |-> h[i].body.userId,
     timestamp |-> h[i].time * 1000, messageId |-> i, bad |-> h[i].body.bad]

(***************************************************************************)
(* utils: inferPlatformInfo.  "" stands for an absent (falsy) string.      *)
(***************************************************************************)
\* An inferPlatformInfo in which the last agreeing rule would decide.
inferPlatformInfo_lastRule(f, rules) ==
    LET hits == { i \in 1..Len(rules) :
                    /\ (f.guildId = "" \/ rules[i].guildId = f.guildId)
                    /\ (f.channelId = "" \/ rules[i].channelId = f.channelId) }
    IN  IF hits = {}
        THEN [platform |-> "", selfId |-> ""]
        ELSE LET i == CHOOSE j \in hits : \A k \in hits : j >= k
             IN  [platform |-> rules[i].platform, selfId |-> rules[i].selfId]

inferPlatformInfo(f, rules) ==
    LET hits == { i \in 1..Len(rules) :
                    /\ (f.guildId = "" \/ rules[i].guildId = f.guildId)
                    /\ (f.channelId = "" \/ rules[i].channelId = f.channelId) }
    IN  IF hits = {}
        THEN [platform |-> "", selfId |-> ""]
        ELSE LET i == CHOOSE j \in hits : \A k \in hits : j <= k
             IN  [platform |-> rules[i].platform, selfId |-> rules[i].selfId]

\* ctx.bots.find(b => b.platform === platform && b.selfId === selfId)
FindBot(platform, selfId) ==
    { b \in bots : b.platform = platform /\ b.selfId = selfId }

\* ctx.bots.find(b => b.platform === 'onebot' &&
\*                    b.selfId === (filter.selfId ?? b.selfId))
FindOneBot(f) ==
    { b \in bots : b.platform = "onebot" /\ b.selfId = f.selfId }

(***************************************************************************)
(* The per-message validity filter of both paging loops.  `t` is the       *)
(* message's timestamp in ms, as the loop compares it.                     *)
(***************************************************************************)
PurposeFilter(f, userId) ==
    IF f.purpose = "group-analysis" THEN userId \notin userFilter
    ELSE IF f.purpose = "user-persona" THEN userId \notin personaUserFilter
    ELSE TRUE

\* A validity filter that would not look at filter.endTime.
ValidMessage_noEndTime(f, t, userId, bad) ==
    LET withinTimeRange == t >= f.startTime
        matchesUser == \/ ~f.userIdGiven
                       \/ Cardinality(f.userId) < 1
                       \/ userId \in f.userId
        hitFilterContent == ~bad
    IN  withinTimeRange /\ matchesUser /\ hitFilterContent
        /\ PurposeFilter(f, userId)

ValidMessage(f, t, userId, bad) ==
    LET withinTimeRange == t >= f.startTime /\ t <= f.endTime
        matchesUser == \/ ~f.userIdGiven
                       \/ Cardinality(f.userId) < 1
                       \/ userId \in f.userId
        hitFilterContent == ~bad
    IN  withinTimeRange /\ matchesUser /\ hitFilterContent
        /\ PurposeFilter(f, userId)

(***************************************************************************)
(* The platform: a request for the page before a cursor.  The platform     *)
(* returns the newest messages older than the cursor (cursor 0: the        *)
(* newest of all), at most `count` and at most pageCap of them, oldest     *)
(* first; a Lagrange backend returns its page newest first.                *)
(***************************************************************************)
PlatformMsg(i) ==
    [message_seq |-> i, message_id |-> i, time |-> history[i].time,
     user_id |-> history[i].body.userId, bad |-> history[i].body.bad]

PageBefore(cur, count) ==
    LET n == IF cur = 0 THEN Len(history) ELSE Min(cur - 1, Len(history))
        k == Min(Min(count, pageCap), n)
    IN  [j \in 1..k |-> PlatformMsg(n - k + j)]

get_group_msg_history(bot, cur, count) ==
    IF bot.lagrange THEN Reverse(PageBefore(cur, count))
    ELSE PageBefore(cur, count)

getMessageList(cur) == PageBefore(cur, Len(history))

(***************************************************************************)
(* getOneBotHistoricalMessages: one round of the while loop, from the      *)
(* response `res` of the page request to the next request or the exit.     *)
(***************************************************************************)
LimitOf(f) == IF f.limit = 0 THEN DefaultLimit ELSE f.limit

OneBotValid(f, batch) ==
    SelectSeq(batch, LAMBDA m : ValidMessage(f, m.time * 1000, m.user_id, m.bad))

OneBotRound(f, res, st) ==
    IF Len(res) = 0
    THEN [st EXCEPT !.done = TRUE]
    ELSE LET batch == IF st.lagrange THEN Reverse(res) ELSE res
             validMessages == OneBotValid(f, batch)
             acc == validMessages \o st.messages
             fc == st.fetchedCount + Len(validMessages)
             stop == \/ batch[1].time * 1000 < f.startTime
                     \/ batch[1].time = st.oldestMsg
         IN  IF stop
             THEN [st EXCEPT !.done = TRUE, !.messages = acc,
                             !.fetchedCount = fc,
                             !.queryRounds = st.queryRounds + 1]
             ELSE [st EXCEPT !.done = ~(fc < LimitOf(f)), !.messages = acc,
                             !.fetchedCount = fc,
                             !.queryRounds = st.queryRounds + 1,
                             !.oldestMsg = batch[1].time,
                             !.cursor = batch[1].message_seq]

\* Convert to StoredMessage format; `return results`
OneBotResults(f, msgs) ==
    [i \in 1..Len(msgs) |->
        [id |-> <<"onebot", msgs[i].message_id>>,
         userId |-> msgs[i].user_id,
         timestamp |-> msgs[i].time * 1000,
         messageId |-> msgs[i].message_id]]

\* catch (error) { ...; return [] }
OneBotCatch(f, msgs) == <<>>

(***************************************************************************)
(* getBotAPIHistoricalMessages: one round of the while loop.               *)
(***************************************************************************)
BotApiValid(f, batch) ==
    SelectSeq(batch, LAMBDA m : ValidMessage(f, m.time * 1000, m.user_id, m.bad))

BotApiRound(f, data, st) ==
    IF Len(data) = 0
    THEN [st EXCEPT !.done = TRUE]
    ELSE LET validMessages == BotApiValid(f, data)
             acc == validMessages \o st.messages
             fc == st.fetchedCount + Len(validMessages)
             oldest == data[1]
             \* nextId = messageList.prev || oldestMsg.messageId
             nextId == oldest.message_id
         IN  IF oldest.time * 1000 < f.startTime
             THEN [st EXCEPT !.done = TRUE, !.messages = acc,
                             !.fetchedCount = fc,
                             !.queryRounds = st.queryRounds + 1]
             ELSE [st EXCEPT !.done = (fc >= LimitOf(f) \/ nextId = 0),
                             !.messages = acc, !.fetchedCount = fc,
                             !.queryRounds = st.queryRounds + 1,
                             !.cursor = nextId]

\* return allMessages.slice(0, limit)
BotApiResults(f, msgs) ==
    LET all == [i \in 1..Len(msgs) |->
                  [id |-> <<"discord", "bot1", f.channelId, msgs[i].message_id>>,
                   userId |-> msgs[i].user_id,
                   timestamp |-> msgs[i].time * 1000,
                   messageId |-> msgs[i].message_id]]
    IN  Take(all, LimitOf(f))

\* catch (error) { ...; return [] }
BotApiCatch(f, msgs) == <<>>

(***************************************************************************)
(* getDatabaseHistoricalMessages: the query it builds and runs.            *)
(***************************************************************************)
\* query.userId after the purpose-based rewriting
DbUserMatches(f, userId) ==
    IF f.purpose = "group-analysis" /\ userFilter # {}
    THEN IF f.userIdGiven THEN userId \in (f.userId \ userFilter)
         ELSE userId \notin userFilter
    ELSE IF f.purpose = "user-persona" /\ personaUserFilter # {}
    THEN IF f.userIdGiven THEN userId \in (f.userId \ userFilter)
         ELSE userId \notin personaUserFilter
    ELSE IF f.userIdGiven THEN userId \in f.userId
    ELSE TRUE

DbRowMatches(f, r) ==
    /\ (f.guildId = "" \/ r.guildId = f.guildId)
    /\ (f.channelId = "" \/ r.channelId = f.channelId)
    /\ r.timestamp >= f.startTime
    /\ r.timestamp <= f.endTime
    /\ DbUserMatches(f, r.userId)

RECURSIVE OrderByTimestampDesc(_)
OrderByTimestampDesc(S) ==
    IF S = {} THEN <<>>
    ELSE LET r == CHOOSE x \in S : \A y \in S : x.timestamp >= y.timestamp
         IN  <<r>> \o OrderByTimestampDesc(S \ {r})

\* select().where(query).offset(..).limit(..).orderBy(timestamp, 'desc')
DbSelect(f) ==
    LET sorted == OrderByTimestampDesc({ r \in store : DbRowMatches(f, r) })
        skipped == SubSeq(sorted, f.offset + 1, Len(sorted))
    IN  Take(skipped, LimitOf(f))

DbResults(f) ==
    LET rows == DbSelect(f)
    IN  [i \in 1..Len(rows) |->
            [id |-> rows[i].id, userId |-> rows[i].userId,
             timestamp |-> rows[i].timestamp, messageId |-> rows[i].messageId]]

(***************************************************************************)
(* isLagrangeBot(bot): the backend-variant probe, a request to the         *)
(* backend made before the paging loop and outside its try block.          *)
(***************************************************************************)
isLagrangeBot(bot) == bot.lagrange

(***************************************************************************)
(* Actions of one getHistoricalMessages call.                              *)
(***************************************************************************)
LoopState ==
    [done |-> FALSE, lagrange |-> isRunningLagrange, messages |-> messages,
     fetchedCount |-> fetchedCount, cursor |-> cursor,
     oldestMsg |-> oldestMsg, queryRounds |-> queryRounds]

Resolve(r) ==
    /\ outcome' = "resolved"
    /\ result' = r
    /\ fetchPc' = "done"

\* getHistoricalMessages up to the first await of the strategy it selects
\* A selection that would ask for the capability before the platform.
SelectStrategy_capabilityFirst(platform, bot) ==
    IF \E b \in bot : b.getMessageList THEN "botapi"
    ELSE IF platform = "onebot" THEN "onebot"
    ELSE "database"

\* getHistoricalMessages: the strategy for the inferred platform and bot.
SelectStrategy(platform, bot) ==
    IF platform = "onebot" THEN "onebot"
    ELSE IF \E b \in bot : b.getMessageList THEN "botapi"
    ELSE "database"

FetchStart ==
    /\ fetchPc = "idle"
    /\ LET info == inferPlatformInfo(filter, listenerGroups)
           bot == FindBot(info.platform, info.selfId)
           strategy == SelectStrategy(info.platform, bot)
       IN  /\ source' = source \cup {strategy}
           /\ IF strategy = "onebot"
              THEN /\ IF (filter.guildId = "" /\ filter.channelId = "")
                         \/ FindOneBot(filter) = {}
                      THEN Resolve(<<>>)
                      ELSE /\ fetchPc' = "probe"
                           /\ UNCHANGED <<outcome, result>>
                   /\ UNCHANGED requests
              ELSE IF strategy = "botapi"
              THEN IF filter.channelId = "" /\ filter.guildId = ""
                   THEN Resolve(<<>>) /\ UNCHANGED requests
                   ELSE /\ fetchPc' = "botapi_page"
                        /\ requests' = requests + 1
                        /\ UNCHANGED <<outcome, result>>
              ELSE /\ fetchPc' = "db"
                   /\ UNCHANGED <<outcome, result, requests>>
    /\ UNCHANGED <<filter, isRunningLagrange, messages, fetchedCount, cursor,
                   oldestMsg, queryRounds>>
    /\ UNCHANGED <<thrown, cfgVars, store, liveVars, personaVars, call>>

\* await isLagrangeBot(bot) returns; the loop issues its first request
ProbeReturn ==
    /\ fetchPc = "probe"
    /\ source' = source \cup {"onebot"}
    /\ isRunningLagrange' = isLagrangeBot(CHOOSE b \in FindOneBot(filter) : TRUE)
    /\ fetchPc' = "onebot_page"
    /\ requests' = requests + 1
    /\ UNCHANGED <<filter, messages, fetchedCount, cursor, oldestMsg,
                   queryRounds, outcome, result>>
    /\ UNCHANGED <<thrown, cfgVars, store, liveVars, personaVars, call>>

\* await isLagrangeBot(bot) throws: nothing catches it
ProbeThrow ==
    /\ fetchPc = "probe"
    /\ source' = source \cup {"onebot"}
    /\ outcome' = "rejected"
    /\ fetchPc' = "done"
    /\ UNCHANGED <<filter, isRunningLagrange, messages, fetchedCount,
                   cursor, oldestMsg, queryRounds, requests, result>>
    /\ thrown' = TRUE
    /\ UNCHANGED <<cfgVars, store, liveVars, personaVars, call>>

SetLoop(st) ==
    /\ messages' = st.messages
    /\ fetchedCount' = st.fetchedCount
    /\ cursor' = st.cursor
    /\ oldestMsg' = st.oldestMsg
    /\ queryRounds' = st.queryRounds

\* the get_group_msg_history request returns
OneBotPageReturn ==
    /\ fetchPc = "onebot_page"
    /\ source' = source \cup {"onebot"}
    /\ LET bot == CHOOSE b \in FindOneBot(filter) : TRUE
           count == IF isRunningLagrange THEN LagrangePageCount
                    ELSE OneBotPageCount
           st == OneBotRound(filter, get_group_msg_history(bot, cursor, count),
                             LoopState)
       IN  /\ SetLoop(st)
           /\ IF st.done
              THEN Resolve(OneBotResults(filter, st.messages))
                   /\ UNCHANGED requests
              ELSE /\ requests' = requests + 1
                   /\ UNCHANGED <<fetchPc, outcome, result>>
    /\ UNCHANGED <<filter, isRunningLagrange>>
    /\ UNCHANGED <<thrown, cfgVars, store, liveVars, personaVars, call>>

\* the get_group_msg_history request throws
OneBotPageThrow ==
    /\ fetchPc = "onebot_page"
    /\ source' = source \cup {"onebot"}
    /\ Resolve(OneBotCatch(filter, messages))
    /\ UNCHANGED <<filter, isRunningLagrange, messages, fetchedCount,
                   cursor, oldestMsg, queryRounds, requests>>
    /\ thrown' = TRUE
    /\ UNCHANGED <<cfgVars, store, liveVars, personaVars, call>>

\* bot.getMessageList(targetId, nextId, 'before') returns
BotApiPageReturn ==
    /\ fetchPc = "botapi_page"
    /\ source' = source \cup {"botapi"}
    /\ LET st == BotApiRound(filter, getMessageList(cursor), LoopState)
       IN  /\ SetLoop(st)
           /\ IF st.done
              THEN Resolve(BotApiResults(filter, st.messages))
                   /\ UNCHANGED requests
              ELSE /\ requests' = requests + 1
                   /\ UNCHANGED <<fetchPc, outcome, result>>
    /\ UNCHANGED <<filter, isRunningLagrange>>
    /\ UNCHANGED <<thrown, cfgVars, store, liveVars, personaVars, call>>

\* bot.getMessageList throws
BotApiPageThrow ==
    /\ fetchPc = "botapi_page"
    /\ source' = source \cup {"botapi"}
    /\ Resolve(BotApiCatch(filter, messages))
    /\ UNCHANGED <<filter, isRunningLagrange, messages, fetchedCount,
                   cursor, oldestMsg, queryRounds, requests>>
    /\ thrown' = TRUE
    /\ UNCHANGED <<cfgVars, store, liveVars, personaVars, call>>

\* the database select returns
DbReturn ==
    /\ fetchPc = "db"
    /\ source' = source \cup {"database"}
    /\ Resolve(DbResults(filter))
    /\ UNCHANGED <<filter, isRunningLagrange, messages, fetchedCount,
                   cursor, oldestMsg, queryRounds, requests>>
    /\ UNCHANGED <<thrown, cfgVars, store, liveVars, personaVars, call>>

\* the database select throws: catch (error) { ...; return [] }
DbThrow ==
    /\ fetchPc = "db"
    /\ source' = source \cup {"database"}
    /\ Resolve(<<>>)
    /\ UNCHANGED <<filter, isRunningLagrange, messages, fetchedCount,
                   cursor, oldestMsg, queryRounds, requests>>
    /\ thrown' = TRUE
    /\ UNCHANGED <<cfgVars, store, liveVars, personaVars, call>>

\* ======================================================================
\* The live-message path of MessageService: listener filter, ring cache,
\* adaptive persistence buffer, idle sweep and shutdown flush.
\* ======================================================================

\* Bounds of the live exploration.
MaxTicks == 3
MaxInflight == 2
MaxFailures == 1
MixedEvents == 2
BurstEvents == 80
FloodEvents == 1001

\* Constants of the service.
cacheSize == 1000
activityWindowMs == 60000
highActivityThreshold == 30
bufferFlushSize == 50
bufferIdleFlushMs == 30000
bufferSweepIntervalMs == 30000

RandomSuffixes == {"r1", "r2"}

EventBudget ==
    IF traffic = "burst" THEN BurstEvents
    ELSE IF traffic = "mixed" THEN MixedEvents
    ELSE IF traffic = "flood" THEN FloodEvents
    ELSE 0

\* In burst traffic the messages follow one another without a pause but at
\* these counts, around the high-activity threshold.
BurstPauses == {29, 30, 31}

\* In burst traffic a direct write settles before the next message arrives;
\* a buffer flush may stay in flight.
KeepsUp ==
    traffic = "burst" => \A w \in writes : w.kind # "single"

\* An upsert that may throw: in burst traffic only a buffer flush.
MayFail(w) ==
    /\ failures < MaxFailures
    /\ traffic = "burst" => w.kind = "batch"

\* The sessions the platform may emit next.  A native message id is fresh,
\* a repeat of the previous event's id, or absent (0).
Scopes ==
    IF traffic \in {"burst", "flood"} THEN {<<"g1", "c1">>}
    ELSE {<<"g1", "c1">>, <<"g2", "c2">>, <<"", "c1">>, <<"", "">>}

NativeIds ==
    IF traffic \in {"burst", "flood"} THEN {delivered + 1}
    ELSE {delivered + 1, 0}
         \cup (IF lastEvent = <<>> THEN {} ELSE {lastEvent.session.messageId})

\* The platform of the deployment's bot.
LivePlatform == (CHOOSE b \in bots : TRUE).platform

Sessions ==
    { [platform |-> LivePlatform, selfId |-> "bot1",
       guildId |-> sc[1], channelId |-> sc[2],
       userId |-> "u1", messageId |-> id,
       timestamp |-> now \div 1000] : sc \in Scopes, id \in NativeIds }

\* utils.shouldListenToMessage: the filter of the persona listener and of
\* the commands, which takes the allow-all flag.
shouldListenToMessage(session, rules, allowAll) ==
    IF session.guildId = "" /\ session.channelId = "" THEN FALSE
    ELSE IF allowAll THEN TRUE
    ELSE \E i \in 1..Len(rules) :
            LET listener == rules[i]
                channelMatches ==
                    /\ session.channelId # ""
                    /\ listener.channelId = session.channelId
                guildMatches ==
                    /\ session.guildId # ""
                    /\ listener.guildId # ""
                    /\ listener.guildId = session.guildId
            IN /\ listener.enabled
               /\ listener.platform = session.platform
               /\ listener.selfId = session.selfId
               /\ (channelMatches \/ guildMatches)

\* A listener filter of the service that would honour the allow-all flag.
ServiceShouldListen_allowAll(session) ==
    shouldListenToMessage(session, listenerGroups, enableAllGroupsByDefault)

\* MessageService.shouldListenToMessage: the service's own listener
\* filter, which reads the rules only.
ServiceShouldListen(session) ==
    /\ ~(session.guildId = "" /\ session.channelId = "")
    /\ \E i \in 1..Len(listenerGroups) :
          LET listener == listenerGroups[i] IN
          /\ listener.enabled
          /\ listener.platform = session.platform
          /\ listener.selfId = session.selfId
          /\ listener.channelId = session.channelId
          /\ (listener.guildId = "" \/ listener.guildId = session.guildId)

\* handleMessage: the id and the StoredMessage built for a session.  n is
\* the number of the ingestion, kept for the history variables only.
\* An id that would never use the native message id.
uniqueId_alwaysSynthetic(session, rand) ==
    <<session.platform, session.selfId, session.channelId, now, rand>>

uniqueId(session, rand) ==
    IF session.messageId # 0
    THEN <<session.platform, session.messageId>>
    ELSE <<session.platform, session.selfId, session.channelId, now, rand>>

storedMessage(session, rand, n) ==
    [ n |-> n,
      id |-> uniqueId(session, rand),
      platform |-> session.platform,
      selfId |-> session.selfId,
      channelId |-> IF session.channelId = "" THEN "0" ELSE session.channelId,
      guildId |-> IF session.guildId = "" THEN "0" ELSE session.guildId,
      userId |-> session.userId,
      timestamp |-> session.timestamp * 1000,
      messageId |-> session.messageId ]

\* A cache insertion that would not truncate the list.
addToCache_unbounded(cache, message) ==
    LET cacheKey == <<message.platform,
                      IF message.guildId # "" THEN message.guildId
                      ELSE message.channelId>>
        cached == IF cacheKey \in DOMAIN cache THEN cache[cacheKey] ELSE <<>>
    IN MapSet(cache, cacheKey, <<message>> \o cached)

addToCache(cache, message) ==
    LET cacheKey == <<message.platform,
                      IF message.guildId # "" THEN message.guildId
                      ELSE message.channelId>>
        cached == IF cacheKey \in DOMAIN cache THEN cache[cacheKey] ELSE <<>>
    IN MapSet(cache, cacheKey, Take(<<message>> \o cached, cacheSize))

\* getRecentMessages(guildId, channelId, limit): the platform is that of
\* the first rule agreeing with the identifiers given ('unknown' when there
\* is none), the key is platform_(guildId || channelId).
getRecentMessages(guildId, channelId, limit) ==
    LET agreeing == {i \in 1..Len(listenerGroups) :
                        /\ (guildId = "" \/ listenerGroups[i].guildId = guildId)
                        /\ (channelId = "" \/ listenerGroups[i].channelId = channelId)}
        platform == IF agreeing = {} THEN "unknown"
                    ELSE listenerGroups[CHOOSE i \in agreeing :
                                          \A j \in agreeing : i <= j].platform
        cacheKey == <<platform, IF guildId # "" THEN guildId ELSE channelId>>
        cached == IF cacheKey \in DOMAIN messageCache THEN messageCache[cacheKey]
                  ELSE <<>>
    IN  Take(cached, limit)

getPersistenceKey(message) ==
    <<message.platform, message.selfId,
      IF message.guildId # "" THEN message.guildId
      ELSE IF message.channelId # "" THEN message.channelId
      ELSE "global">>

\* getActivityStats: the window of the key at the message's timestamp.
getActivityStats(stats, key, timestamp) ==
    IF key \notin DOMAIN stats
       \/ timestamp - stats[key].windowStart > activityWindowMs
    THEN [windowStart |-> timestamp, count |-> 0]
    ELSE stats[key]

\* A threshold comparison that would be off by one.
HighActivity_offByOne(count) == count > highActivityThreshold

HighActivity(count) == ~(count < highActivityThreshold)

\* One database.upsert in flight: its payload, what the awaiting code does
\* when it settles, and which flush it belongs to.
Upsert(payload, kind, next, owner) ==
    [messages |-> payload, kind |-> kind, next |-> next, owner |-> owner]

Numbers(payload) == {payload[i].n : i \in 1..Len(payload)}

\* The row an upsert leaves for a StoredMessage.
RowFor(m) ==
    [ id |-> m.id, platform |-> m.platform, selfId |-> m.selfId,
      channelId |-> m.channelId, guildId |-> m.guildId, userId |-> m.userId,
      timestamp |-> m.timestamp, messageId |-> m.messageId, bad |-> FALSE ]

\* database.upsert on the primary key id: a later element of the payload
\* replaces an earlier one and any stored row of the same id.
UpsertRows(rows, payload) ==
    LET ids == {payload[i].id : i \in 1..Len(payload)}
        last(id) == CHOOSE i \in 1..Len(payload) :
                        /\ payload[i].id = id
                        /\ \A j \in (i+1)..Len(payload) : payload[j].id # id
    IN {r \in rows : r.id \notin ids} \cup {RowFor(payload[last(id)]) : id \in ids}

\* The live path and the persona trigger as constructed, with no event due.
\* History: the events a set of newly issued upserts carries.
HandOver(newWrites) ==
    LET singles == UNION {Numbers(w.messages) : w \in {x \in newWrites : x.kind = "single"}}
        batches == UNION {Numbers(w.messages) : w \in {x \in newWrites : x.kind = "batch"}}
    IN /\ handedSingle' = handedSingle \cup singles
       /\ handedBatch' = handedBatch \cup batches
       /\ doubleHanded' = (\/ doubleHanded
                           \/ singles \cap batches # {}
                           \/ (singles \cup batches) \cap (handedSingle \cup handedBatch) # {})

\* History: the activity window an ingested message falls in, from the
\* timestamps of the messages of its key alone.
LogEntry(message) ==
    LET key == getPersistenceKey(message)
        same == {k \in 1..Len(log) : getPersistenceKey(log[k].m) = key}
        prev == IF same = {} THEN 0 ELSE CHOOSE k \in same : \A l \in same : l <= k
        fresh == \/ prev = 0
                 \/ message.timestamp - log[log[prev].first].m.timestamp > activityWindowMs
    IN [m |-> message,
        first |-> IF fresh THEN message.n ELSE log[prev].first,
        rank |-> IF fresh THEN 1 ELSE log[prev].rank + 1]

\* A size test that would flush one message late.
BufferFull_late(held) == Len(held) > bufferFlushSize

\* buffer.messages.length >= this.bufferFlushSize
BufferFull(held) == Len(held) >= bufferFlushSize

\* enqueueMessageForPersistence up to its first pending upsert: the new
\* statistics and buffers, the upsert issued (if any), and whether the
\* call returns at once.
Enqueue(message) ==
    LET key == getPersistenceKey(message)
        stats0 == getActivityStats(activityStats, key, message.timestamp)
        stats == [stats0 EXCEPT !.count = @ + 1]
        held == IF key \in DOMAIN persistenceBuffers
                THEN persistenceBuffers[key].messages ELSE <<>>
        appended == Append(held, message)
    IN IF ~HighActivity(stats.count)
       THEN [ stats |-> MapSet(activityStats, key, stats),
              buffers |-> IF held # <<>> THEN MapDelete(persistenceBuffers, key)
                          ELSE persistenceBuffers,
              issued |-> IF held # <<>>
                         THEN {Upsert(held, "batch", <<"direct", message>>, <<"handler">>)}
                         ELSE {Upsert(<<message>>, "single", <<"notify", message.n>>, <<"handler">>)},
              pushed |-> {} ]
       ELSE [ stats |-> MapSet(activityStats, key, stats),
              buffers |-> IF BufferFull(appended)
                          THEN MapDelete(persistenceBuffers, key)
                          ELSE MapSet(persistenceBuffers, key,
                                      [messages |-> appended, lastMessageAt |-> now]),
              issued |-> IF BufferFull(appended)
                         THEN {Upsert(appended, "batch", <<"notify", message.n>>, <<"handler">>)}
                         ELSE {},
              pushed |-> {message.n} ]

\* A persistIncomingMessage that would not ask the bot for getMessageList.
PersistWithoutBuffer_anyBot(session, message) ==
    IF session.platform # "onebot"
    THEN [ stats |-> activityStats, buffers |-> persistenceBuffers,
           issued |-> {Upsert(<<message>>, "single", <<"notify", message.n>>, <<"handler">>)},
           pushed |-> {} ]
    ELSE [ stats |-> activityStats, buffers |-> persistenceBuffers,
           issued |-> {}, pushed |-> {} ]

\* persistIncomingMessage without always-persist: a direct write only for
\* a platform other than onebot whose bot has no getMessageList.
PersistWithoutBuffer(session, message) ==
    IF /\ session.platform # "onebot"
       /\ \A b \in FindBot(session.platform, session.selfId) : ~b.getMessageList
    THEN [ stats |-> activityStats, buffers |-> persistenceBuffers,
           issued |-> {Upsert(<<message>>, "single", <<"notify", message.n>>, <<"handler">>)},
           pushed |-> {} ]
    ELSE [ stats |-> activityStats, buffers |-> persistenceBuffers,
           issued |-> {}, pushed |-> {} ]

persistIncomingMessage(session, message) ==
    IF alwaysPersistMessages THEN Enqueue(message)
    ELSE PersistWithoutBuffer(session, message)

\* The handlers that may be registered with onUserMessage: the persona
\* trigger of the analysis service and other downstream listeners.
MaxHandlers == 2
HandlerNames == {"persona", "h1"}

HandlerLists ==
    UNION { { l \in [1..k -> HandlerNames] :
                \A i, j \in 1..k : i # j => l[i] # l[j] }
            : k \in 0..MaxHandlers }

\* The handlers that may throw for a message.  The persona trigger is
\* taken not to throw: its select does not fail in the persona path
\* explored.
ThrowChoices ==
    SUBSET ({messageHandlers[i] : i \in 1..Len(messageHandlers)} \ {"persona"})

\* A notification loop without its try/catch: the first handler that
\* throws ends the loop and rejects handleMessage.
RECURSIVE RunHandlers_uncaught(_, _, _)
RunHandlers_uncaught(handlers, throwing, i) ==
    IF i > Len(handlers)
    THEN [calls |-> <<>>, rejected |-> FALSE]
    ELSE LET threw == handlers[i] \in throwing
             rest == RunHandlers_uncaught(handlers, throwing, i + 1)
             this == <<[handler |-> handlers[i], threw |-> threw]>>
         IN  IF threw THEN [calls |-> this, rejected |-> TRUE]
             ELSE [calls |-> this \o rest.calls, rejected |-> rest.rejected]

\* handleMessage: for (const handler of this.messageHandlers) { try {
\* await handler(session) } catch (error) { warn } }, from handler i on.
RECURSIVE RunHandlers(_, _, _)
RunHandlers(handlers, throwing, i) ==
    IF i > Len(handlers)
    THEN [calls |-> <<>>, rejected |-> FALSE]
    ELSE LET threw == handlers[i] \in throwing
             rest == RunHandlers(handlers, throwing, i + 1)
             this == <<[handler |-> handlers[i], threw |-> threw]>>
         IN  [calls |-> this \o rest.calls, rejected |-> rest.rejected]

\* ctx.on('message'): the listener filter, then handleMessage up to its
\* first pending upsert (the handlers run at once when there is none).
Deliver(session, rand) ==
    /\ traffic # "none"
    /\ ~disposed
    /\ delivered < EventBudget
    /\ Cardinality(writes) < MaxInflight
    /\ KeepsUp
    /\ session.messageId # 0 => rand = "r1"
    /\ delivered' = delivered + 1
    /\ IF ~ServiceShouldListen(session)
       THEN /\ lastEvent' = [session |-> session, handled |-> FALSE]
            /\ UNCHANGED <<ingested, messageCache, activityStats,
                           persistenceBuffers, writes, notified, log, pushed,
                           handedSingle, handedBatch, doubleHanded>>
       ELSE LET message == storedMessage(session, rand, ingested + 1)
                plan == persistIncomingMessage(session, message)
            IN /\ lastEvent' = [session |-> session, handled |-> TRUE]
               /\ ingested' = ingested + 1
               /\ messageCache' = addToCache(messageCache, message)
               /\ log' = Append(log, LogEntry(message))
               /\ activityStats' = plan.stats
               /\ persistenceBuffers' = plan.buffers
               /\ writes' = writes \cup plan.issued
               /\ pushed' = pushed \cup plan.pushed
               /\ IF plan.issued = {}
                  THEN \E throwing \in ThrowChoices :
                          notified' = MapSet(notified, message.n,
                                             RunHandlers(messageHandlers, throwing, 1))
                  ELSE UNCHANGED notified
               /\ HandOver(plan.issued)
    /\ UNCHANGED <<now, traffic, disposed, flushAll, flushedAtShutdown, landed,
                   failures>>
    /\ UNCHANGED <<messageHandlers, cfgVars, store, fetchVars, personaVars, call>>

\* The tail of flushIdleBuffers, run once its flushes have settled:
\* statistics whose window had elapsed when the sweep began are deleted.
DeleteExpiredStats(stats, sweepNow) ==
    LET expired == {k \in DOMAIN stats :
                        sweepNow - stats[k].windowStart > activityWindowMs}
    IN [k \in (DOMAIN stats) \ expired |-> stats[k]]

\* A persistMessages without its try/catch: a failed upsert would reject
\* and the code awaiting it would not go on.
persistMessagesReturns_uncaught(ok) == ok

\* persistMessages: try { await upsert } catch (error) { warn }: it returns
\* to the code awaiting it whatever the upsert did.
persistMessagesReturns(ok) == TRUE

\* persistMessages: the upsert settles.  A failure is caught and logged;
\* either way the code awaiting it goes on.
WriteSettle(w, ok) ==
    /\ w \in writes
    /\ ok \/ MayFail(w)
    /\ LET rest == writes \ {w}
           follow == IF w.next[1] = "direct" /\ persistMessagesReturns(ok)
                     THEN {Upsert(<<w.next[2]>>, "single",
                                  <<"notify", w.next[2].n>>, <<"handler">>)}
                     ELSE {}
           lastOfFlush == \A x \in rest : x.owner # w.owner
       IN /\ writes' = rest \cup follow
          /\ HandOver(follow)
          /\ store' = IF ok THEN UpsertRows(store, w.messages) ELSE store
          /\ landed' = IF ok THEN landed \cup Numbers(w.messages) ELSE landed
          /\ failures' = IF ok THEN failures ELSE failures + 1
          /\ IF w.next[1] = "notify" /\ persistMessagesReturns(ok)
             THEN \E throwing \in ThrowChoices :
                     notified' = MapSet(notified, w.next[2],
                                        RunHandlers(messageHandlers, throwing, 1))
             ELSE UNCHANGED notified
          /\ activityStats' = IF w.owner[1] = "sweep" /\ lastOfFlush
                              THEN DeleteExpiredStats(activityStats, w.owner[2])
                              ELSE activityStats
          /\ flushAll' = IF w.owner[1] = "shutdown" /\ lastOfFlush
                         THEN "done" ELSE flushAll
    /\ UNCHANGED <<now, traffic, delivered, ingested, messageCache,
                   persistenceBuffers, disposed, log, pushed,
                   flushedAtShutdown, lastEvent>>
    /\ UNCHANGED <<messageHandlers, cfgVars, fetchVars, personaVars, call>>

\* Time passes, between the completions of the database calls.
Tick ==
    /\ traffic # "none"
    /\ now < MaxTicks * bufferSweepIntervalMs
    /\ writes = {}
    /\ traffic = "burst" => delivered \in BurstPauses
    /\ now' = now + bufferSweepIntervalMs
    /\ UNCHANGED <<traffic, delivered, ingested, messageCache, activityStats,
                   persistenceBuffers, writes, notified, disposed, flushAll,
                   log, pushed, handedSingle, handedBatch, doubleHanded,
                   flushedAtShutdown, landed, failures, lastEvent>>
    /\ UNCHANGED <<messageHandlers, cfgVars, store, fetchVars, personaVars, call>>

\* The ring-cache cleanup of setupCacheCleanup: its expiration and its
\* interval, and the number of intervals explored.
cacheExpiration == 1440000
cacheCleanupIntervalMs == 300000
MaxCleanupIntervals == 6

\* A cleanup interval passes.
Elapse ==
    /\ traffic = "mixed"
    /\ now < MaxCleanupIntervals * cacheCleanupIntervalMs
    /\ writes = {}
    /\ now' = now + cacheCleanupIntervalMs
    /\ UNCHANGED <<traffic, delivered, ingested, messageCache, activityStats,
                   persistenceBuffers, writes, notified, disposed, flushAll,
                   log, pushed, handedSingle, handedBatch, doubleHanded,
                   flushedAtShutdown, landed, failures, lastEvent>>
    /\ UNCHANGED <<messageHandlers, cfgVars, store, fetchVars, personaVars, call>>

\* The callback of setupCacheCleanup: every list keeps the messages with
\* now - timestamp < cacheExpiration; a key whose list is left empty is
\* deleted.
CacheCleanup ==
    /\ traffic # "none"
    /\ ~disposed
    /\ LET valid(k) == SelectSeq(messageCache[k],
                           LAMBDA m : now - m.timestamp < cacheExpiration)
           kept == {k \in DOMAIN messageCache : valid(k) # <<>>}
       IN messageCache' = [k \in kept |-> valid(k)]
    /\ UNCHANGED <<now, traffic, delivered, ingested, activityStats,
                   persistenceBuffers, writes, notified, disposed, flushAll,
                   log, pushed, handedSingle, handedBatch, doubleHanded,
                   flushedAtShutdown, landed, failures, lastEvent>>
    /\ UNCHANGED <<messageHandlers, cfgVars, store, fetchVars, personaVars, call>>

\* The traffic ends: no further message arrives, and a sweep interval
\* passes.
Lull ==
    /\ traffic \in {"burst", "mixed"}
    /\ writes = {}
    /\ traffic' = "over"
    /\ now' = now + bufferSweepIntervalMs
    /\ UNCHANGED <<delivered, ingested, messageCache, activityStats,
                   persistenceBuffers, writes, notified, disposed, flushAll,
                   log, pushed, handedSingle, handedBatch, doubleHanded,
                   flushedAtShutdown, landed, failures, lastEvent>>
    /\ UNCHANGED <<messageHandlers, cfgVars, store, fetchVars, personaVars, call>>

\* An idle test that would ask for more than the idle time.
IdleKeys_strict ==
    {k \in DOMAIN persistenceBuffers :
        /\ persistenceBuffers[k].messages # <<>>
        /\ now - persistenceBuffers[k].lastMessageAt > bufferIdleFlushMs}

\* flushIdleBuffers, on the sweep interval.
IdleKeys ==
    {k \in DOMAIN persistenceBuffers :
        /\ persistenceBuffers[k].messages # <<>>
        /\ now - persistenceBuffers[k].lastMessageAt >= bufferIdleFlushMs}

Sweep ==
    /\ traffic # "none"
    /\ ~disposed
    /\ LET empty == {k \in DOMAIN persistenceBuffers :
                        persistenceBuffers[k].messages = <<>>}
           issued == {Upsert(persistenceBuffers[k].messages, "batch",
                             <<"none">>, <<"sweep", now>>) : k \in IdleKeys}
       IN /\ persistenceBuffers' =
                [k \in (DOMAIN persistenceBuffers) \ (empty \cup IdleKeys) |->
                    persistenceBuffers[k]]
          /\ writes' = writes \cup issued
          /\ HandOver(issued)
          /\ activityStats' = IF issued = {}
                              THEN DeleteExpiredStats(activityStats, now)
                              ELSE activityStats
    /\ UNCHANGED <<now, traffic, delivered, ingested, messageCache, notified,
                   disposed, flushAll, log, pushed, flushedAtShutdown, landed,
                   failures, lastEvent>>
    /\ UNCHANGED <<messageHandlers, cfgVars, store, fetchVars, personaVars, call>>

\* A shutdown flush that would take the idle buffers only.
FlushAllKeys_idleOnly == IdleKeys

\* ctx.on('dispose'): flushAllBuffers flushes every key of the map.
FlushAllKeys == DOMAIN persistenceBuffers

Dispose ==
    /\ traffic # "none"
    /\ ~disposed
    /\ disposed' = TRUE
    /\ LET flushed == {k \in FlushAllKeys : persistenceBuffers[k].messages # <<>>}
           issued == {Upsert(persistenceBuffers[k].messages, "batch",
                             <<"none">>, <<"shutdown">>) : k \in flushed}
       IN /\ persistenceBuffers' =
                [k \in (DOMAIN persistenceBuffers) \ flushed |-> persistenceBuffers[k]]
          /\ writes' = writes \cup issued
          /\ HandOver(issued)
          /\ flushAll' = IF issued = {} THEN "done" ELSE "running"
          /\ flushedAtShutdown' = UNION {Numbers(w.messages) : w \in issued}
    /\ UNCHANGED <<now, traffic, delivered, ingested, messageCache,
                   activityStats, notified, log, pushed, landed, failures,
                   lastEvent>>
    /\ UNCHANGED <<messageHandlers, cfgVars, store, fetchVars, personaVars, call>>

LiveIdle ==
    /\ now = 0
    /\ traffic = "none"
    /\ delivered = 0
    /\ ingested = 0
    /\ messageCache = EmptyMap
    /\ activityStats = EmptyMap
    /\ persistenceBuffers = EmptyMap
    /\ writes = {}
    /\ notified = EmptyMap
    /\ messageHandlers = <<>>
    /\ disposed = FALSE
    /\ flushAll = "idle"
    /\ log = <<>>
    /\ pushed = {}
    /\ handedSingle = {}
    /\ handedBatch = {}
    /\ doubleHanded = FALSE
    /\ flushedAtShutdown = {}
    /\ landed = {}
    /\ failures = 0
    /\ lastEvent = <<>>

\* ======================================================================
\* The persona trigger of AnalysisService, the manual refresh command and
\* the read of a persona.
\* ======================================================================

\* Bounds of the persona exploration: messages delivered to the handler,
\* and commands and reads issued.
MaxPersonaEvents == 3
MaxPersonaCalls == 1

\* Trigger threshold and persona exclusion list of the deployments explored.
PersonaConfigs == { <<1, {"u2"}>>, <<2, {"u2"}>> }
PersonaSenders == {"u1", "u2", ""}
PersonaTargets == {"u1"}
CommandTargets == {"u1", "u2"}

\* How a runPersonaAnalysis ends: too few messages or no answer of the
\* model (it returns having changed nothing), a merged persona stored, or
\* an exception.
Outcomes == {"nothing", "persona", "throws"}

buildPersonaRecordId(platform, selfId, userId) == <<platform, selfId, userId>>

\* A trigger that would not look at personaProcessing.
MayStart_unguarded(recordId) == TRUE

\* The second half of the trigger condition: !personaProcessing.has(recordId)
MayStart(recordId) == recordId \notin personaProcessing

\* A threshold test that would fire one message late.
ThresholdReached_late(pending) == pending > personaAnalysisMessageInterval

\* The first half: cache.pendingMessages >= personaAnalysisMessageInterval
ThresholdReached(pending) == pending >= personaAnalysisMessageInterval

\* ensurePersonaCache after its select: the cache object built from the
\* row of the table, if there is one.
NewCacheObject(recordId) ==
    [key |-> recordId, pendingMessages |-> 0,
     parsedPersona |-> recordId \in personaTable]

\* handleIncomingMessageForPersona after ensurePersonaCache has returned
\* the cache object `obj`: count the message, and start an analysis when
\* the threshold is reached and none is marked in flight for the key.
CountAndTrigger(recordId, obj, objs) ==
    LET pending == objs[obj].pendingMessages + 1
        counted == [objs EXCEPT ![obj].pendingMessages = pending]
        reached == ThresholdReached(pending)
        run == IF recordId \in DOMAIN runsStarted THEN runsStarted[recordId] + 1 ELSE 1
    IN /\ cacheObjs' = counted
       /\ IF reached /\ MayStart(recordId)
          THEN /\ personaProcessing' = personaProcessing \cup {recordId}
               /\ analyses' = analyses \cup
                     {[key |-> recordId, obj |-> obj, run |-> run, origin |-> "trigger"]}
               /\ runsStarted' = MapSet(runsStarted, recordId, run)
               /\ UNCHANGED heldBack
          ELSE /\ heldBack' = IF reached
                              THEN heldBack \cup {<<recordId, run - 1>>}
                              ELSE heldBack
               /\ UNCHANGED <<personaProcessing, analyses, runsStarted>>

\* The analyses that manual refreshes await on cache object `obj`.  They
\* differ in nothing but their number, so they are numbered -1..-n and the
\* one numbered -n is the one taken to settle.
ManualRuns(obj) == {a \in analyses : a.obj = obj /\ a.origin = "manual"}

\* executeUserPersonaAnalysis after ensurePersonaCache has returned `obj`:
\* runPersonaAnalysis is awaited when the refresh is forced, the cached
\* persona has expired or there is none.
RefreshOrShow(recordId, obj, objs, force, expired) ==
    LET shouldRefresh == force \/ expired \/ ~objs[obj].parsedPersona
    IN /\ cacheObjs' = objs
       /\ IF shouldRefresh
          THEN analyses' = analyses \cup
                     {[key |-> recordId, obj |-> obj,
                       run |-> 0 - (Cardinality(ManualRuns(obj)) + 1),
                       origin |-> "manual"]}
          ELSE UNCHANGED analyses
       /\ UNCHANGED <<personaProcessing, runsStarted, heldBack>>

\* The selects of ensurePersonaCache awaited for live messages of a key.
\* They differ in nothing but their number, so they are numbered 1..n and
\* the one numbered n is the one taken to return.
MessageLookups(recordId) ==
    {l \in lookups : l.key = recordId /\ l.kind = "message"}

\* A persona listener that would count whatever the interval is.
AutomaticAnalysisOff_never == FALSE

\* this.config.personaAnalysisMessageInterval === 0: the test on which
\* setupPersonaMessageListener registers no handler and
\* handleIncomingMessageForPersona returns at once.
AutomaticAnalysisOff == personaAnalysisMessageInterval = 0

\* A live message of `userId` reaches the persona listener.  With
\* automatic analysis off nothing handles it.  Otherwise a cached key goes
\* straight on and an uncached one has ensurePersonaCache await its
\* select.
PersonaMessage(userId) ==
    /\ personaEvents < MaxPersonaEvents
    /\ LET recordId == buildPersonaRecordId("discord", "bot1", userId) IN
       IF userId = ""
       THEN UNCHANGED <<personaCache, cacheObjs, personaProcessing, lookups,
                        analyses, runsStarted, heldBack, personaEvents>>
       ELSE IF AutomaticAnalysisOff \/ userId \in personaUserFilter
       THEN /\ personaEvents' = personaEvents + 1
            /\ UNCHANGED <<personaCache, cacheObjs, personaProcessing, lookups,
                           analyses, runsStarted, heldBack>>
       ELSE IF recordId \in DOMAIN personaCache
       THEN /\ personaEvents' = personaEvents + 1
            /\ CountAndTrigger(recordId, personaCache[recordId], cacheObjs)
            /\ UNCHANGED <<personaCache, lookups>>
       ELSE /\ personaEvents' = personaEvents + 1
            /\ lookups' = lookups \cup
                  {[event |-> Cardinality(MessageLookups(recordId)) + 1,
                    key |-> recordId,
                    kind |-> "message", force |-> FALSE]}
            /\ UNCHANGED <<personaCache, cacheObjs, personaProcessing,
                           analyses, runsStarted, heldBack>>
    /\ UNCHANGED <<personaAnalysisMessageInterval, personaTable, personaCalls>>
    /\ UNCHANGED <<cfgVars, store, fetchVars, liveVars, call>>

\* The manual refresh command for `userId`, up to the analysis it awaits.
\* The answer of isCacheExpiredByDays for the record of the cache object is
\* an input of the step that has the object.
ManualRefresh(userId, force) ==
    /\ personaCalls < MaxPersonaCalls
    /\ personaCalls' = personaCalls + 1
    /\ LET recordId == buildPersonaRecordId("discord", "bot1", userId) IN
       IF recordId \in DOMAIN personaCache
       THEN /\ \E expired \in BOOLEAN :
                  RefreshOrShow(recordId, personaCache[recordId], cacheObjs,
                                force, expired)
            /\ UNCHANGED <<personaCache, lookups>>
       ELSE /\ lookups' = lookups \cup
                  {[event |-> 0 - (personaCalls + 1), key |-> recordId,
                    kind |-> "manual", force |-> force]}
            /\ UNCHANGED <<personaCache, cacheObjs, personaProcessing,
                           analyses, runsStarted, heldBack>>
    /\ UNCHANGED <<personaAnalysisMessageInterval, personaTable, personaEvents>>
    /\ UNCHANGED <<cfgVars, store, fetchVars, liveVars, call>>

\* A command that would not look at the persona exclusion list.
CommandRefuses_never(userId) == FALSE

\* The 用户画像 command: config.personaUserFilter.includes(userId) ends
\* it with a refusal.
CommandRefuses(userId) == userId \in personaUserFilter

\* The 用户画像 command for `userId`: refused for a user of the exclusion
\* list, otherwise it calls executeUserPersonaAnalysis.
PersonaCommand(userId, force) ==
    IF CommandRefuses(userId)
    THEN /\ personaCalls < MaxPersonaCalls
         /\ personaCalls' = personaCalls + 1
         /\ UNCHANGED <<personaAnalysisMessageInterval, personaCache, cacheObjs,
                        personaProcessing, lookups, analyses, runsStarted,
                        heldBack, personaEvents, personaTable>>
         /\ UNCHANGED <<cfgVars, store, fetchVars, liveVars, call>>
    ELSE ManualRefresh(userId, force)

\* ensurePersonaCache's select returns: a new cache object with
\* pendingMessages 0 is put in the map under the key, replacing any other,
\* and the caller goes on with it.
LookupReturn(l) ==
    /\ l \in lookups
    /\ l.kind \in {"message", "manual"}
    /\ l.kind = "message" => l.event = Cardinality(MessageLookups(l.key))
    /\ lookups' = lookups \ {l}
    /\ LET obj == Len(cacheObjs) + 1
           objs == Append(cacheObjs, NewCacheObject(l.key))
       IN /\ personaCache' = MapSet(personaCache, l.key, obj)
          /\ IF l.kind = "message"
             THEN CountAndTrigger(l.key, obj, objs)
             ELSE \E expired \in BOOLEAN :
                     RefreshOrShow(l.key, obj, objs, l.force, expired)
    /\ UNCHANGED <<personaAnalysisMessageInterval, personaTable, personaEvents,
                   personaCalls>>
    /\ UNCHANGED <<cfgVars, store, fetchVars, liveVars, call>>

\* runPersonaAnalysis settles.  A merged persona is set on the cache object
\* and upserted.  A triggered run ends in the finally clause, which unmarks
\* the key and zeroes the counter; a manual run zeroes the counter only
\* when it did not throw and the object has a persona.
AnalysisSettle(a, ending) ==
    /\ a \in analyses
    /\ a.origin = "manual" => a.run = 0 - Cardinality(ManualRuns(a.obj))
    /\ analyses' = analyses \ {a}
    /\ LET parsed == cacheObjs[a.obj].parsedPersona \/ ending = "persona"
           reset == \/ a.origin = "trigger"
                    \/ (ending # "throws" /\ parsed)
       IN /\ cacheObjs' = [cacheObjs EXCEPT
                              ![a.obj].parsedPersona = parsed,
                              ![a.obj].pendingMessages = IF reset THEN 0 ELSE @]
          /\ personaTable' = IF ending = "persona"
                             THEN personaTable \cup {a.key} ELSE personaTable
          /\ personaProcessing' = IF a.origin = "trigger"
                                  THEN personaProcessing \ {a.key}
                                  ELSE personaProcessing
    /\ UNCHANGED <<personaAnalysisMessageInterval, personaCache, lookups,
                   runsStarted, heldBack, personaEvents, personaCalls>>
    /\ UNCHANGED <<cfgVars, store, fetchVars, liveVars, call>>

\* The answer of an ensurePersonaCache-like read path: a getUserPersona
\* that would keep what it read in the persona cache.
ReadReturn_caching(l) ==
    /\ l \in lookups
    /\ l.kind = "read"
    /\ lookups' = lookups \ {l}
    /\ call' = [call EXCEPT !.from = "store", !.found = l.key \in personaTable]
    /\ personaCache' = MapSet(personaCache, l.key, Len(cacheObjs) + 1)
    /\ cacheObjs' = Append(cacheObjs, NewCacheObject(l.key))
    /\ UNCHANGED <<personaAnalysisMessageInterval, personaProcessing, analyses,
                   runsStarted, heldBack, personaEvents, personaCalls,
                   personaTable>>
    /\ UNCHANGED <<cfgVars, store, fetchVars, liveVars>>

\* getUserPersona(platform, selfId, userId) up to its answer from the cache
\* or to the select it awaits.  `call` records the call and its answer.
GetUserPersona(userId) ==
    /\ call = <<>>
    /\ LET recordId == buildPersonaRecordId("discord", "bot1", userId)
           cached == /\ recordId \in DOMAIN personaCache
                     /\ cacheObjs[personaCache[recordId]].parsedPersona
       IN IF cached
          THEN /\ call' = [fn |-> "getUserPersona", key |-> recordId,
                           from |-> "cache", found |-> TRUE]
               /\ UNCHANGED lookups
          ELSE /\ call' = [fn |-> "getUserPersona", key |-> recordId,
                           from |-> "pending", found |-> FALSE]
               /\ lookups' = lookups \cup
                     {[event |-> 0, key |-> recordId, kind |-> "read",
                       force |-> FALSE]}
    /\ UNCHANGED <<personaAnalysisMessageInterval, personaCache, cacheObjs,
                   personaProcessing, analyses, runsStarted, heldBack,
                   personaEvents, personaCalls, personaTable>>
    /\ UNCHANGED <<cfgVars, store, fetchVars, liveVars>>

\* The select of getUserPersona returns: the answer is the persona of the
\* row, or null when there is no row with a persona.
ReadReturn(l) ==
    /\ l \in lookups
    /\ l.kind = "read"
    /\ lookups' = lookups \ {l}
    /\ call' = [call EXCEPT !.from = "store", !.found = l.key \in personaTable]
    /\ UNCHANGED <<personaAnalysisMessageInterval, personaCache, cacheObjs,
                   personaProcessing, analyses, runsStarted, heldBack,
                   personaEvents, personaCalls, personaTable>>
    /\ UNCHANGED <<cfgVars, store, fetchVars, liveVars>>

PersonaIdle ==
    /\ personaAnalysisMessageInterval = 0
    /\ personaCache = EmptyMap
    /\ cacheObjs = <<>>
    /\ personaProcessing = {}
    /\ lookups = {}
    /\ analyses = {}
    /\ runsStarted = EmptyMap
    /\ heldBack = {}
    /\ personaEvents = 0
    /\ personaCalls = 0
    /\ personaTable = {}

InitFetch ==
    /\ call = <<>>
    /\ \E d \in Deployments : listenerGroups = d[1] /\ bots = d[2]
    /\ \E x \in ExclusionConfigs : userFilter = x[1] /\ personaUserFilter = x[2]
    /\ enableAllGroupsByDefault = FALSE
    /\ alwaysPersistMessages = FALSE
    /\ history \in Histories
    /\ pageCap \in PageCaps
    /\ store = { RowOf(history, i) : i \in 1..Len(history) }
    /\ filter \in Filters
    /\ fetchPc = "idle"
    /\ source = {}
    /\ isRunningLagrange = FALSE
    /\ messages = <<>>
    /\ fetchedCount = 0
    /\ cursor = 0
    /\ oldestMsg = NoMsg
    /\ queryRounds = 0
    /\ requests = 0
    /\ outcome = "pending"
    /\ thrown = FALSE
    /\ result = <<>>
    /\ LiveIdle
    /\ PersonaIdle

NextFetch ==
    \/ FetchStart
    \/ ProbeReturn
    \/ ProbeThrow
    \/ OneBotPageReturn
    \/ OneBotPageThrow
    \/ BotApiPageReturn
    \/ BotApiPageThrow
    \/ DbReturn
    \/ DbThrow

SpecFetch == InitFetch /\ [][NextFetch]_vars

\* Deployments for the choice of the platform: rule tables with no rule,
\* with no rule of the group, and with two rules of the group that differ
\* in platform or in bot identity, in both orders; the bots online; the
\* allow-all flag.
OtherGroupRule == [Rule("discord") EXCEPT !.guildId = "g9", !.channelId = "c9"]
SecondBotRule == [Rule("discord") EXCEPT !.selfId = "bot2"]

ResolveTables ==
    { <<>>,
      <<OtherGroupRule>>,
      <<Rule("onebot"), Rule("discord")>>,
      <<Rule("discord"), Rule("onebot")>>,
      <<OtherGroupRule, Rule("onebot")>>,
      <<SecondBotRule, Rule("discord")>>,
      <<Rule("discord"), SecondBotRule>> }

ResolveBots ==
    { {BotOf("onebot", TRUE, FALSE)},
      {BotOf("onebot", FALSE, FALSE), BotOf("discord", TRUE, FALSE)},
      {BotOf("discord", TRUE, FALSE),
       [BotOf("discord", FALSE, FALSE) EXCEPT !.selfId = "bot2"]} }

InitResolve ==
    /\ call = <<>>
    /\ listenerGroups \in ResolveTables
    /\ bots \in ResolveBots
    /\ enableAllGroupsByDefault \in BOOLEAN
    /\ userFilter = {}
    /\ personaUserFilter = {}
    /\ alwaysPersistMessages = FALSE
    /\ history \in Histories
    /\ pageCap \in PageCaps
    /\ store = { RowOf(history, i) : i \in 1..Len(history) }
    /\ filter \in { f \in Filters : /\ f.purpose = "none"
                                    /\ f.startTime = 1000
                                    /\ f.limit = 2 }
    /\ fetchPc = "idle"
    /\ source = {}
    /\ isRunningLagrange = FALSE
    /\ messages = <<>>
    /\ fetchedCount = 0
    /\ cursor = 0
    /\ oldestMsg = NoMsg
    /\ queryRounds = 0
    /\ requests = 0
    /\ outcome = "pending"
    /\ thrown = FALSE
    /\ result = <<>>
    /\ LiveIdle
    /\ PersonaIdle

SpecResolve == InitResolve /\ [][NextFetch]_vars

(***************************************************************************)
(* Paging to exhaustion: a OneBot group whose whole history lies inside   *)
(* the window of the filter and passes its other tests, a limit above the *)
(* number of messages, and a backend that returns at most pageCap         *)
(* messages per request.                                                   *)
(***************************************************************************)
MaxPaged == 3

PagedHistories ==
    UNION { { h \in [1..n -> [body : {b \in MsgBodies : ~b.bad}, time : 1..2]] :
                \A i \in 1..(n - 1) : h[i].time <= h[i + 1].time }
            : n \in 0..MaxPaged }

InitPaging ==
    /\ call = <<>>
    /\ listenerGroups = <<Rule("onebot")>>
    /\ \E lag \in BOOLEAN : bots = {BotOf("onebot", FALSE, lag)}
    /\ userFilter = {}
    /\ personaUserFilter = {}
    /\ enableAllGroupsByDefault = FALSE
    /\ alwaysPersistMessages = FALSE
    /\ history \in PagedHistories
    /\ pageCap \in 1..MaxPaged
    /\ store = { RowOf(history, i) : i \in 1..Len(history) }
    /\ \E purpose \in {"none", "group-analysis"} :
          filter = [guildId |-> "g1", channelId |-> "c1", selfId |-> "bot1",
                    userIdGiven |-> FALSE, userId |-> {},
                    startTime |-> 1000, endTime |-> 2000,
                    limit |-> Len(history) + 1, offset |-> 0,
                    purpose |-> purpose]
    /\ fetchPc = "idle"
    /\ source = {}
    /\ isRunningLagrange = FALSE
    /\ messages = <<>>
    /\ fetchedCount = 0
    /\ cursor = 0
    /\ oldestMsg = NoMsg
    /\ queryRounds = 0
    /\ requests = 0
    /\ outcome = "pending"
    /\ thrown = FALSE
    /\ result = <<>>
    /\ LiveIdle
    /\ PersonaIdle

NextPaging ==
    \/ FetchStart
    \/ ProbeReturn
    \/ ProbeThrow
    \/ OneBotPageReturn
    \/ OneBotPageThrow

SpecPaging == InitPaging /\ [][NextPaging]_vars

\* Paging through a backlog: a group whose window holds up to MaxBacklog
\* messages of user u1, one second apart, served one message a page, and
\* a call that asks for the messages of u2, or of everyone, with a limit
\* of 2 or the default.
MaxBacklog == 51

Backlogs ==
    { [i \in 1..n |-> [body |-> [userId |-> "u1", bad |-> FALSE], time |-> i]]
      : n \in 0..MaxBacklog }

InitBacklog ==
    /\ call = <<>>
    /\ \E d \in { <<"onebot", FALSE, FALSE>>, <<"onebot", FALSE, TRUE>>,
                  <<"discord", TRUE, FALSE>> } :
          /\ listenerGroups = <<Rule(d[1])>>
          /\ bots = {BotOf(d[1], d[2], d[3])}
    /\ userFilter = {}
    /\ personaUserFilter = {}
    /\ enableAllGroupsByDefault = FALSE
    /\ alwaysPersistMessages = FALSE
    /\ history \in Backlogs
    /\ pageCap = 1
    /\ store = {}
    /\ \E wanted \in {{}, {"u2"}}, limit \in {0, 2} :
          filter = [guildId |-> "g1", channelId |-> "c1", selfId |-> "bot1",
                    userIdGiven |-> wanted # {}, userId |-> wanted,
                    startTime |-> 1000, endTime |-> MaxBacklog * 1000,
                    limit |-> limit, offset |-> 0, purpose |-> "none"]
    /\ fetchPc = "idle"
    /\ source = {}
    /\ isRunningLagrange = FALSE
    /\ messages = <<>>
    /\ fetchedCount = 0
    /\ cursor = 0
    /\ oldestMsg = NoMsg
    /\ queryRounds = 0
    /\ requests = 0
    /\ outcome = "pending"
    /\ thrown = FALSE
    /\ result = <<>>
    /\ LiveIdle
    /\ PersonaIdle

NextBacklog ==
    \/ FetchStart
    \/ ProbeReturn
    \/ OneBotPageReturn
    \/ BotApiPageReturn

SpecBacklog == InitBacklog /\ [][NextBacklog]_vars

\* The fetch path at rest, for the specifications of the other paths.
FetchIdle ==
    /\ history = <<>>
    /\ pageCap = 1
    /\ filter = [guildId |-> "g1", channelId |-> "c1", selfId |-> "bot1",
                 userIdGiven |-> FALSE, userId |-> {}, startTime |-> 1000,
                 endTime |-> 2000, limit |-> 1, offset |-> 0,
                 purpose |-> "none"]
    /\ fetchPc = "idle"
    /\ source = {}
    /\ isRunningLagrange = FALSE
    /\ messages = <<>>
    /\ fetchedCount = 0
    /\ cursor = 0
    /\ oldestMsg = NoMsg
    /\ queryRounds = 0
    /\ requests = 0
    /\ outcome = "pending"
    /\ thrown = FALSE
    /\ result = <<>>

\* The live deployments: listener rules (none, channel c1 of guild g1,
\* channel c1 with no guild named), the allow-all flag, always-persist, and
\* whether the bot has getMessageList.
LiveDeployments ==
    { <<(<<>>), TRUE, TRUE, FALSE>>,
      <<(<<>>), FALSE, FALSE, FALSE>>,
      <<(<<Rule("discord")>>), FALSE, TRUE, FALSE>>,
      <<(<<Rule("discord")>>), TRUE, FALSE, FALSE>>,
      <<(<<Rule("discord")>>), FALSE, FALSE, TRUE>>,
      <<(<<[Rule("discord") EXCEPT !.guildId = ""]>>), TRUE, TRUE, FALSE>> }

InitLive ==
    /\ call = <<>>
    /\ traffic \in {"burst", "mixed"}
    /\ IF traffic = "burst"
       THEN /\ listenerGroups = <<Rule("discord")>>
            /\ bots = {BotOf("discord", FALSE, FALSE)}
            /\ enableAllGroupsByDefault = FALSE
            /\ alwaysPersistMessages = TRUE
       ELSE \E d \in LiveDeployments :
            /\ listenerGroups = d[1]
            /\ enableAllGroupsByDefault = d[2]
            /\ alwaysPersistMessages = d[3]
            /\ bots = {BotOf("discord", d[4], FALSE)}
    /\ userFilter = {}
    /\ personaUserFilter = {}
    /\ store = {}
    /\ FetchIdle
    /\ now = 0
    /\ delivered = 0
    /\ ingested = 0
    /\ messageCache = EmptyMap
    /\ activityStats = EmptyMap
    /\ persistenceBuffers = EmptyMap
    /\ writes = {}
    /\ notified = EmptyMap
    /\ messageHandlers = <<"persona">>
    /\ disposed = FALSE
    /\ flushAll = "idle"
    /\ log = <<>>
    /\ pushed = {}
    /\ handedSingle = {}
    /\ handedBatch = {}
    /\ doubleHanded = FALSE
    /\ flushedAtShutdown = {}
    /\ landed = {}
    /\ failures = 0
    /\ lastEvent = <<>>
    /\ PersonaIdle

NextLive ==
    \/ \E session \in Sessions, rand \in RandomSuffixes : Deliver(session, rand)
    \/ \E w \in writes, ok \in BOOLEAN : WriteSettle(w, ok)
    \/ Tick
    \/ Sweep
    \/ Dispose

SpecLive == InitLive /\ [][NextLive]_vars

\* The live path in burst traffic with its timers firing and its database
\* calls settling: the traffic ends at some time, the sweep of
\* setupPersistenceTasks keeps firing and every upsert settles.
NextSweeping ==
    \/ NextLive
    \/ Lull

InitSweeping ==
    /\ InitLive
    /\ traffic = "burst"

SpecSweeping ==
    /\ InitSweeping
    /\ [][NextSweeping]_vars
    /\ WF_vars(Lull)
    /\ WF_vars(Sweep)
    /\ WF_vars(\E w \in writes, ok \in BOOLEAN : WriteSettle(w, ok))

\* The notification of the registered handlers: mixed traffic over the
\* live deployments, with every list of handlers registered at start.
\* The ring cache over the cleanup intervals: messages of a few scopes
\* arrive in a deployment that persists nothing, time passes and the
\* cleanup runs.
InitExpiry ==
    /\ InitLive
    /\ traffic = "mixed"
    /\ ~alwaysPersistMessages
    /\ \A b \in bots : b.getMessageList

NextExpiry ==
    \/ \E session \in Sessions, rand \in RandomSuffixes : Deliver(session, rand)
    \/ Elapse
    \/ CacheCleanup

SpecExpiry == InitExpiry /\ [][NextExpiry]_vars

\* Deployments that listen in two channels: the rules name the guilds or
\* leave them out, the platform is discord or onebot, the bot has
\* getMessageList or not, always-persist is on or off.
ScopeRules(p, named) ==
    << [Rule(p) EXCEPT !.guildId = IF named THEN "g1" ELSE ""],
       [Rule(p) EXCEPT !.channelId = "c2",
                       !.guildId = IF named THEN "g2" ELSE ""] >>

InitScopes ==
    /\ call = <<>>
    /\ traffic = "mixed"
    /\ \E p \in {"discord", "onebot"}, named \in BOOLEAN, gml \in BOOLEAN :
          /\ listenerGroups = ScopeRules(p, named)
          /\ bots = {BotOf(p, gml, FALSE)}
    /\ enableAllGroupsByDefault = FALSE
    /\ alwaysPersistMessages \in BOOLEAN
    /\ userFilter = {}
    /\ personaUserFilter = {}
    /\ store = {}
    /\ FetchIdle
    /\ now = 0
    /\ delivered = 0
    /\ ingested = 0
    /\ messageCache = EmptyMap
    /\ activityStats = EmptyMap
    /\ persistenceBuffers = EmptyMap
    /\ writes = {}
    /\ notified = EmptyMap
    /\ messageHandlers = <<"persona">>
    /\ disposed = FALSE
    /\ flushAll = "idle"
    /\ log = <<>>
    /\ pushed = {}
    /\ handedSingle = {}
    /\ handedBatch = {}
    /\ doubleHanded = FALSE
    /\ flushedAtShutdown = {}
    /\ landed = {}
    /\ failures = 0
    /\ lastEvent = <<>>
    /\ PersonaIdle

NextScopes ==
    \/ \E session \in Sessions, rand \in RandomSuffixes : Deliver(session, rand)
    \/ \E w \in writes, ok \in BOOLEAN : WriteSettle(w, ok)
    \/ Dispose

SpecScopes == InitScopes /\ [][NextScopes]_vars

\* The ring cache filled past its capacity: in a deployment that persists
\* nothing, FloodEvents messages of one scope arrive, or a few messages
\* of several scopes.  The flood is explored from the start and from the
\* state it is in after cacheSize - 1 messages.
FloodSession(i) ==
    [platform |-> "discord", selfId |-> "bot1", guildId |-> "g1",
     channelId |-> "c1", userId |-> "u1", messageId |-> i, timestamp |-> 0]

FloodMessage(i) == storedMessage(FloodSession(i), "r1", i)

AfterFlood(n) ==
    /\ delivered = n
    /\ ingested = n
    /\ messageCache =
          IF n = 0 THEN EmptyMap
          ELSE MapSet(EmptyMap, <<"discord", "g1">>,
                      [i \in 1..n |-> FloodMessage(n + 1 - i)])
    /\ log = [i \in 1..n |-> [m |-> FloodMessage(i), first |-> 1, rank |-> i]]
    /\ notified = [i \in 1..n |-> RunHandlers(<<"persona">>, {}, 1)]
    /\ lastEvent = IF n = 0 THEN <<>>
                   ELSE [session |-> FloodSession(n), handled |-> TRUE]

InitFlood ==
    /\ call = <<>>
    /\ traffic \in {"flood", "mixed"}
    /\ now = 0
    /\ \E n \in IF traffic = "flood" THEN {0, cacheSize - 1} ELSE {0} :
          AfterFlood(n)
    /\ listenerGroups = <<Rule("discord")>>
    /\ enableAllGroupsByDefault = FALSE
    /\ alwaysPersistMessages = FALSE
    /\ bots = {BotOf("discord", TRUE, FALSE)}
    /\ userFilter = {}
    /\ personaUserFilter = {}
    /\ store = {}
    /\ FetchIdle
    /\ activityStats = EmptyMap
    /\ persistenceBuffers = EmptyMap
    /\ writes = {}
    /\ messageHandlers = <<"persona">>
    /\ disposed = FALSE
    /\ flushAll = "idle"
    /\ pushed = {}
    /\ handedSingle = {}
    /\ handedBatch = {}
    /\ doubleHanded = FALSE
    /\ flushedAtShutdown = {}
    /\ landed = {}
    /\ failures = 0
    /\ PersonaIdle

NextFlood ==
    \E session \in Sessions, rand \in RandomSuffixes : Deliver(session, rand)

SpecFlood == InitFlood /\ [][NextFlood]_vars

InitNotify ==
    /\ call = <<>>
    /\ traffic = "mixed"
    /\ \E d \in LiveDeployments :
            /\ listenerGroups = d[1]
            /\ enableAllGroupsByDefault = d[2]
            /\ alwaysPersistMessages = d[3]
            /\ bots = {BotOf("discord", d[4], FALSE)}
    /\ userFilter = {}
    /\ personaUserFilter = {}
    /\ store = {}
    /\ FetchIdle
    /\ now = 0
    /\ delivered = 0
    /\ ingested = 0
    /\ messageCache = EmptyMap
    /\ activityStats = EmptyMap
    /\ persistenceBuffers = EmptyMap
    /\ writes = {}
    /\ notified = EmptyMap
    /\ messageHandlers \in HandlerLists
    /\ disposed = FALSE
    /\ flushAll = "idle"
    /\ log = <<>>
    /\ pushed = {}
    /\ handedSingle = {}
    /\ handedBatch = {}
    /\ doubleHanded = FALSE
    /\ flushedAtShutdown = {}
    /\ landed = {}
    /\ failures = 0
    /\ lastEvent = <<>>
    /\ PersonaIdle

NextNotify ==
    \/ \E session \in Sessions, rand \in RandomSuffixes : Deliver(session, rand)
    \/ \E w \in writes, ok \in BOOLEAN : WriteSettle(w, ok)

SpecNotify == InitNotify /\ [][NextNotify]_vars

(***************************************************************************)
(* Properties of getHistoricalMessages.                                    *)
(***************************************************************************)
Ascending(r) == \A i \in 1..(Len(r) - 1) : r[i].timestamp <= r[i + 1].timestamp

\* The platform messages of user u that every strategy's filter accepts.
Expected(f, u) ==
    { i \in 1..Len(history) :
        /\ history[i].body.userId = u
        /\ ~history[i].body.bad
        /\ history[i].time * 1000 >= f.startTime
        /\ history[i].time * 1000 <= f.endTime
        /\ (~f.userIdGiven \/ f.userId = {} \/ u \in f.userId) }

\* C1: whichever strategy serves a getHistoricalMessages call, the list it
\* resolves to is in ascending timestamp order.
C1_AscendingOnEveryStrategy ==
    outcome = "resolved" => Ascending(result)

\* C2: on every strategy the list a call resolves to has at most
\* filter.limit messages.
C2_LimitRespected ==
    outcome = "resolved" => Len(result) <= filter.limit

\* C3: for a user in userFilter but not in personaUserFilter, a call with
\* purpose group-analysis returns none of the user's messages, and a call
\* with purpose user-persona that reached its source, did not fail and was
\* not cut by the limit returns the user's messages of the time range, on every strategy and also
\* when filter.userId names the user.
C3_PurposeIsolation ==
    (outcome = "resolved" /\ ~thrown
     /\ (requests >= 1 \/ "database" \in source)) =>
        \A u \in userFilter \ personaUserFilter :
            /\ filter.purpose = "group-analysis" =>
                  \A j \in 1..Len(result) : result[j].userId # u
            /\ (filter.purpose = "user-persona" /\ Len(result) < filter.limit) =>
                  \A i \in Expected(filter, u) :
                      \E j \in 1..Len(result) : result[j].messageId = i

\* C29: a call with purpose user-persona returns no message of a user of
\* personaUserFilter, whichever of the three strategies served it, also
\* when filter.userId names the user.
C29_PersonaExclusionOnAllPaths ==
    (outcome = "resolved" /\ filter.purpose = "user-persona") =>
        \A j \in 1..Len(result) : result[j].userId \notin personaUserFilter

\* C8: a getHistoricalMessages call never rejects, whatever request to the
\* platform or to the database throws.
C8_NeverRejects ==
    outcome # "rejected"

\* C9: when a page request throws after at least one page was accumulated,
\* the call resolves to the valid messages accumulated so far.
C9_PartialResultOnThrow ==
    (outcome = "resolved" /\ thrown /\ queryRounds >= 1) =>
        /\ "onebot" \in source => result = OneBotResults(filter, messages)
        /\ "botapi" \in source => result = BotApiResults(filter, messages)

InitPersona ==
    /\ call = <<>>
    /\ listenerGroups = <<Rule("discord")>>
    /\ bots = {BotOf("discord", FALSE, FALSE)}
    /\ enableAllGroupsByDefault = FALSE
    /\ alwaysPersistMessages = FALSE
    /\ userFilter = {}
    /\ \E c \in PersonaConfigs :
          /\ personaAnalysisMessageInterval = c[1]
          /\ personaUserFilter = c[2]
    /\ store = {}
    /\ FetchIdle
    /\ LiveIdle
    /\ personaCache = EmptyMap
    /\ cacheObjs = <<>>
    /\ personaProcessing = {}
    /\ lookups = {}
    /\ analyses = {}
    /\ runsStarted = EmptyMap
    /\ heldBack = {}
    /\ personaEvents = 0
    /\ personaCalls = 0
    /\ personaTable \in SUBSET {buildPersonaRecordId("discord", "bot1", u) : u \in PersonaTargets}

NextPersona ==
    \/ \E userId \in PersonaSenders : PersonaMessage(userId)
    \/ \E l \in lookups : LookupReturn(l)
    \/ \E a \in analyses, ending \in Outcomes : AnalysisSettle(a, ending)
    \/ \E userId \in CommandTargets, force \in BOOLEAN :
            PersonaCommand(userId, force)
    \/ \E userId \in PersonaTargets : GetUserPersona(userId)
    \/ \E l \in lookups : ReadReturn(l)

SpecPersona == InitPersona /\ [][NextPersona]_vars

\* The persona paths of a deployment with automatic analysis switched off.
InitPersonaOff ==
    /\ call = <<>>
    /\ listenerGroups = <<Rule("discord")>>
    /\ bots = {BotOf("discord", FALSE, FALSE)}
    /\ enableAllGroupsByDefault = FALSE
    /\ alwaysPersistMessages = FALSE
    /\ userFilter = {}
    /\ personaAnalysisMessageInterval = 0
    /\ personaUserFilter \in {{}, {"u2"}}
    /\ store = {}
    /\ FetchIdle
    /\ LiveIdle
    /\ personaCache = EmptyMap
    /\ cacheObjs = <<>>
    /\ personaProcessing = {}
    /\ lookups = {}
    /\ analyses = {}
    /\ runsStarted = EmptyMap
    /\ heldBack = {}
    /\ personaEvents = 0
    /\ personaCalls = 0
    /\ personaTable \in SUBSET {buildPersonaRecordId("discord", "bot1", u) : u \in PersonaTargets}

SpecPersonaOff == InitPersonaOff /\ [][NextPersona]_vars

\* The persona paths with the selects and the analyses they await settling:
\* every awaited select returns and every runPersonaAnalysis returns or
\* throws.  No message and no command is ever bound to come.
SpecPersonaSettling ==
    /\ SpecPersona
    /\ WF_vars(\E l \in lookups : LookupReturn(l))
    /\ WF_vars(\E a \in analyses, ending \in Outcomes : AnalysisSettle(a, ending))
    /\ WF_vars(\E l \in lookups : ReadReturn(l))

\* ======================================================================
\* utils: mergePersona, the merge of the profile a persona analysis
\* returns into the profile kept for the user.
\* ======================================================================
MaxListLen == 2

\* string[] lists of a profile as the model and the store deliver them; ""
\* is an empty string, which Boolean() takes for false.
ListsOf(entries, n) == UNION { [1..k -> entries] : k \in 0..n }

Profiles(summary) ==
    [summary : {summary},
     keyTraits : ListsOf({"", "k"}, 1),
     interests : ListsOf({"", "a", "b"}, MaxListLen),
     evidence : ListsOf({"", "e"}, 1),
     lastMergedFromHistory : {FALSE}]

\* list.filter(Boolean)
FilterBoolean(list) == SelectSeq(list, LAMBDA x : x # "")

\* A preferArray that would take the lists as they are.
preferArray_unfiltered(primary, fallback) ==
    IF Len(primary) > 0 THEN primary ELSE fallback

preferArray(primary, fallback) ==
    LET primaryList == FilterBoolean(primary)
    IN  IF Len(primaryList) > 0 THEN primaryList
        ELSE FilterBoolean(fallback)

\* `previous` is <<>> for null or undefined, <<profile>> otherwise.
mergePersona(previous, current) ==
    IF previous = <<>> THEN current
    ELSE [summary |-> current.summary,
          keyTraits |-> preferArray(current.keyTraits, previous[1].keyTraits),
          interests |-> preferArray(current.interests, previous[1].interests),
          evidence |-> preferArray(current.evidence, previous[1].evidence),
          lastMergedFromHistory |-> TRUE]

\* runPersonaAnalysis: const merged = mergePersona(cache.parsedPersona,
\* personaWithEvidence)
Merge ==
    /\ call.fn = "mergePersona"
    /\ ~call.done
    /\ call' = [call EXCEPT !.result = <<mergePersona(call.previous, call.current)>>,
                            !.done = TRUE]
    /\ UNCHANGED <<cfgVars, store, fetchVars, liveVars, personaVars>>

InitMerge ==
    /\ \E previous \in {<<>>} \cup { <<q>> : q \in Profiles("old") },
          current \in Profiles("new") :
          call = [fn |-> "mergePersona", previous |-> previous,
                  current |-> current, result |-> <<>>, done |-> FALSE]
    /\ listenerGroups = <<>>
    /\ bots = {}
    /\ enableAllGroupsByDefault = FALSE
    /\ alwaysPersistMessages = FALSE
    /\ userFilter = {}
    /\ personaUserFilter = {}
    /\ store = {}
    /\ FetchIdle
    /\ LiveIdle
    /\ PersonaIdle

NextMerge == Merge

SpecMerge == InitMerge /\ [][NextMerge]_vars

\* ======================================================================
\* The listener rules: the utility filter applied to an event, and the
\* disable command that edits config.listenerGroups.
\* ======================================================================

\* Bound: the number of listener rules configured.
MaxRules == 2

Identities == {<<"discord", "bot1">>, <<"discord", "bot2">>, <<"onebot", "bot1">>}

RuleUniverse ==
    { [enabled |-> e, platform |-> id[1], selfId |-> id[2],
       channelId |-> c, guildId |-> g] :
        e \in BOOLEAN, id \in Identities, c \in {"", "c1", "c2"}, g \in {"", "g1"} }

RuleLists == UNION { [1..n -> RuleUniverse] : n \in 0..MaxRules }

\* The sessions of events and commands: platform, selfId and the scope.
ScopeSessions ==
    { [platform |-> id[1], selfId |-> id[2], channelId |-> c, guildId |-> g] :
        id \in Identities, c \in {"", "c1", "c2"}, g \in {"", "g1"} }

\* shouldListenToMessage is applied to an event under the current rules.
Listen(session) ==
    /\ call' = [fn |-> "shouldListenToMessage", session |-> session,
                before |-> listenerGroups,
                result |-> shouldListenToMessage(session, listenerGroups,
                                                 enableAllGroupsByDefault)]
    /\ UNCHANGED <<cfgVars, store, fetchVars, liveVars, personaVars>>

\* The .disable subcommand: findIndex of the first rule whose channelId is
\* the session's, or whose guildId is the session's, and splice of that
\* one rule.
DisableMatches(settings, session) ==
    \/ settings.channelId = session.channelId
    \/ settings.guildId = session.guildId

RemoveAt(rules, i) ==
    [j \in 1..(Len(rules) - 1) |-> IF j < i THEN rules[j] ELSE rules[j + 1]]

DisableSplice(rules, session) ==
    LET found == {i \in 1..Len(rules) : DisableMatches(rules[i], session)}
    IN IF found = {} THEN rules
       ELSE RemoveAt(rules, CHOOSE i \in found : \A j \in found : i <= j)

Disable(session) ==
    /\ ~(session.channelId = "" /\ session.guildId = "")
    /\ listenerGroups' = DisableSplice(listenerGroups, session)
    /\ call' = [fn |-> "disable", session |-> session,
                before |-> listenerGroups, result |-> TRUE]
    /\ UNCHANGED <<enableAllGroupsByDefault, alwaysPersistMessages, userFilter,
                   personaUserFilter, bots, history, pageCap>>
    /\ UNCHANGED <<store, fetchVars, liveVars, personaVars>>

InitRules ==
    /\ call = <<>>
    /\ listenerGroups \in RuleLists
    /\ enableAllGroupsByDefault \in BOOLEAN
    /\ alwaysPersistMessages = FALSE
    /\ userFilter = {}
    /\ personaUserFilter = {}
    /\ bots = {}
    /\ store = {}
    /\ FetchIdle
    /\ LiveIdle
    /\ PersonaIdle

NextRules ==
    \/ \E session \in ScopeSessions : Listen(session)
    \/ \E session \in ScopeSessions : Disable(session)

SpecRules == InitRules /\ [][NextRules]_vars

\* ceil(m / p)
CeilDiv(m, p) == (m + p - 1) \div p

\* C14: with the M messages of the backend all inside the window, page
\* size p and a limit above M, a paging call that no request fails runs
\* ceil(M/p) non-empty rounds, ends with the request that returns nothing,
\* and returns all M messages once each in ascending order.
C14_PagingToExhaustion ==
    (fetchPc = "done" /\ ~thrown) =>
        /\ queryRounds = CeilDiv(Len(history), pageCap)
        /\ requests = CeilDiv(Len(history), pageCap) + 1
        /\ Len(result) = Len(history)
        /\ {result[i].messageId : i \in 1..Len(result)} = 1..Len(history)
        /\ Ascending(result)

\* C23: a call of the legacy or of the generic paging strategy issues at
\* most 50 page requests, whatever the backend answers, also when no
\* page holds a message that counts toward the limit.
C23_RoundCap ==
    requests <= 50

\* C15: on every strategy, every message of the list a call resolves to
\* has filter.startTime <= timestamp <= filter.endTime.
C15_WindowContainment ==
    outcome = "resolved" =>
        \A i \in 1..Len(result) :
            /\ filter.startTime <= result[i].timestamp
            /\ result[i].timestamp <= filter.endTime

\* C15 witness: a paging strategy has returned a message of the window
\* and left out a later message of the platform that nothing but its time
\* excludes.
C15_Witness ==
    /\ outcome = "resolved"
    /\ source \in {{"onebot"}, {"botapi"}}
    /\ Len(result) >= 1
    /\ \E i \in 1..Len(history) :
          /\ history[i].time * 1000 > filter.endTime
          /\ ValidMessage(filter, filter.endTime, history[i].body.userId,
                          history[i].body.bad)

\* C12: a getHistoricalMessages call enters one strategy, the first of
\* onebot paging (inferred platform onebot), generic paging (the inferred
\* bot has getMessageList) and the database query, and no other backend
\* answers in the call, whether the chosen one fails or returns nothing.
C12_OneSourcePerCall ==
    fetchPc # "idle" =>
        LET info == inferPlatformInfo(filter, listenerGroups)
            capable == \E b \in bots : /\ b.platform = info.platform
                                       /\ b.selfId = info.selfId
                                       /\ b.getMessageList
        IN source = { IF info.platform = "onebot" THEN "onebot"
                      ELSE IF capable THEN "botapi"
                      ELSE "database" }

\* C12 witness: the inferred platform is onebot, its bot has getMessageList
\* too and the table holds rows; the onebot paging failed, the call has
\* returned nothing, and only onebot was consulted.
C12_Witness ==
    /\ fetchPc = "done"
    /\ outcome = "resolved"
    /\ thrown
    /\ result = <<>>
    /\ store # {}
    /\ \E b \in bots : b.platform = "onebot" /\ b.getMessageList
    /\ source = {"onebot"}

(***************************************************************************)
(* Properties of the live-message path.                                    *)
(***************************************************************************)
Scoped(session) == ~(session.guildId = "" /\ session.channelId = "")

\* An enabled rule of the session's platform, selfId and channelId, whose
\* guildId, when it names one, is the session's.
RuleMatches(session) ==
    \E i \in 1..Len(listenerGroups) :
        /\ listenerGroups[i].enabled
        /\ listenerGroups[i].platform = session.platform
        /\ listenerGroups[i].selfId = session.selfId
        /\ listenerGroups[i].channelId = session.channelId
        /\ listenerGroups[i].guildId \in {"", session.guildId}

\* The latest event was taken in by handleMessage: it heads its ring cache
\* and is the last ingestion logged.
TakenIn ==
    /\ lastEvent.handled
    /\ ingested >= 1 /\ Len(log) = ingested
    /\ LET m == log[ingested].m
           cacheKey == <<m.platform, m.guildId>>
       IN /\ m.messageId = lastEvent.session.messageId
          /\ m.userId = lastEvent.session.userId
          /\ cacheKey \in DOMAIN messageCache
          /\ messageCache[cacheKey][1] = m
          /\ \/ ingested \in DOMAIN notified
             \/ ingested \in pushed
             \/ \E w \in writes :
                    \/ ingested \in Numbers(w.messages)
                    \/ w.next = <<"direct", m>>

\* C5 (as stated): once flushAllBuffers has completed with no write
\* failure, every message ever pushed to a buffer is in the store, as many
\* were written from buffers as were pushed, and every buffer is empty.
C5_ShutdownFlushComplete_AsStated ==
    (flushAll = "done" /\ failures = 0) =>
        /\ pushed \subseteq landed
        /\ Cardinality(handedBatch \cap landed) = Cardinality(pushed)
        /\ \A k \in DOMAIN persistenceBuffers : persistenceBuffers[k].messages = <<>>

\* C5 (amended): once flushAllBuffers has completed, no write has failed
\* and no buffer flush begun before the shutdown is still in flight, every
\* message ever pushed to a buffer is in the store, as many were written
\* from buffers as were pushed, each once, and every buffer is empty.
C5_ShutdownFlushComplete ==
    (/\ flushAll = "done"
     /\ failures = 0
     /\ \A w \in writes : w.kind # "batch") =>
        /\ pushed \subseteq landed
        /\ handedBatch = pushed
        /\ Cardinality(handedBatch \cap landed) = Cardinality(pushed)
        /\ ~doubleHanded
        /\ \A k \in DOMAIN persistenceBuffers : persistenceBuffers[k].messages = <<>>

\* C5 witness: a shutdown flush that had buffered messages to write has
\* completed, after an idle sweep had written others, with nothing failed.
C5_Witness ==
    /\ flushAll = "done"
    /\ failures = 0
    /\ writes = {}
    /\ flushedAtShutdown # {}
    /\ pushed \ flushedAtShutdown # {}
    /\ pushed \subseteq landed

\* C6: two ingestions of one native message (same platform, selfId,
\* channel and native id) get the same StoredMessage id, and once both are
\* persisted the store holds exactly one row of that id.
SameNative(a, b) ==
    /\ a.messageId # 0
    /\ a.messageId = b.messageId
    /\ a.platform = b.platform
    /\ a.selfId = b.selfId
    /\ a.channelId = b.channelId

C6_IdempotentIngestion ==
    \A j \in 1..Len(log) : \A k \in (j+1)..Len(log) :
        SameNative(log[j].m, log[k].m) =>
            /\ log[j].m.id = log[k].m.id
            /\ (j \in landed /\ k \in landed) =>
                  Cardinality({r \in store :
                                  /\ r.platform = log[j].m.platform
                                  /\ r.selfId = log[j].m.selfId
                                  /\ r.channelId = log[j].m.channelId
                                  /\ r.messageId = log[j].m.messageId}) = 1

\* C6 witness: a native message ingested twice, at different times, and
\* persisted both times.
C6_Witness ==
    \E j \in 1..Len(log) : \E k \in (j+1)..Len(log) :
        /\ SameNative(log[j].m, log[k].m)
        /\ log[j].m.timestamp # log[k].m.timestamp
        /\ j \in landed /\ k \in landed

\* C7: with always-persist on, a message among the first 29 of its
\* activity window is never buffered and is handed to a single-message
\* write only; a later message of the window is buffered and handed to a
\* batched flush only; no message is handed to two writes, and what is in
\* the store got there by the write of its kind.
C7_DirectThenBuffered ==
    alwaysPersistMessages =>
        /\ ~doubleHanded
        /\ handedSingle \cap handedBatch = {}
        /\ landed \subseteq handedSingle \cup handedBatch
        /\ \A n \in 1..Len(log) :
              IF log[n].rank <= highActivityThreshold - 1
              THEN /\ n \notin pushed
                   /\ n \notin handedBatch
                   /\ \/ n \in handedSingle
                      \/ \E w \in writes : w.next = <<"direct", log[n].m>>
              ELSE /\ n \in pushed
                   /\ n \notin handedSingle
                   /\ \/ n \in handedBatch
                      \/ \E k \in DOMAIN persistenceBuffers :
                            \E i \in 1..Len(persistenceBuffers[k].messages) :
                                persistenceBuffers[k].messages[i].n = n

\* C7 witness: the 29th message of a window is in the store by a single
\* write and the 30th by a batched flush.
C7_Witness ==
    \E n \in 1..Len(log) : \E l \in 1..Len(log) :
        /\ log[n].first = log[l].first
        /\ log[n].rank = highActivityThreshold - 1
        /\ log[l].rank = highActivityThreshold
        /\ n \in handedSingle \cap landed
        /\ l \in handedBatch \cap landed

PersistencePending(n) ==
    \E w \in writes :
        /\ w.owner = <<"handler">>
        /\ \/ w.next[1] = "notify" /\ w.next[2] = n
           \/ w.next[1] = "direct" /\ w.next[2].n = n

InRingCache(n) ==
    \E k \in DOMAIN messageCache :
        \E i \in 1..Len(messageCache[k]) : messageCache[k][i].n = n

\* C18: for every ingested message the registered handlers are run once
\* each, in registration order, when the message is in the ring cache and
\* its persistence step is over and not before; a handler that throws
\* neither keeps the later handlers from being called nor makes
\* handleMessage reject.
C18_HandlersNotified ==
    /\ DOMAIN notified \subseteq 1..ingested
    /\ \A n \in 1..ingested :
          /\ (n \in DOMAIN notified) = ~PersistencePending(n)
          /\ n \in DOMAIN notified =>
                /\ InRingCache(n)
                /\ Len(notified[n].calls) = Len(messageHandlers)
                /\ \A i \in 1..Len(messageHandlers) :
                      notified[n].calls[i].handler = messageHandlers[i]
                /\ ~notified[n].rejected

\* C18 witness: two handlers are registered, the upsert awaited for a
\* message has succeeded, the first handler threw for the message and the
\* second was called after it.
C18_Witness ==
    \E n \in DOMAIN notified :
        /\ n \in landed
        /\ Len(notified[n].calls) = 2
        /\ notified[n].calls[1].threw
        /\ ~notified[n].calls[2].threw

\* The buffers a sweep finds with a last append at least idleFlushMs old.
OldBuffers ==
    {k \in DOMAIN persistenceBuffers :
        /\ persistenceBuffers[k].messages # <<>>
        /\ now - persistenceBuffers[k].lastMessageAt >= 30000}

\* C24: every message appended to a persistence buffer is eventually
\* handed to a batch write although no further message arrives, as long
\* as the sweep keeps firing; and a sweep hands over every buffer whose
\* last append is 30 s old or older.
C24_BufferedEventuallyWritten ==
    /\ <>[](pushed \subseteq handedBatch)
    /\ [][Sweep =>
            \A k \in OldBuffers :
                Numbers(persistenceBuffers[k].messages) \subseteq handedBatch']_vars

\* C24 witness: the traffic has ended with messages in a buffer short of
\* the flush size, and a sweep has handed them to a batch write.
C24_Witness ==
    /\ traffic = "over"
    /\ \E w \in writes :
          /\ w.owner[1] = "sweep"
          /\ Len(w.messages) < bufferFlushSize
          /\ Numbers(w.messages) \subseteq pushed

\* The ingested messages whose store write has been issued.
Handed == handedSingle \cup handedBatch

\* The messages held in the persistence buffers.
Buffered ==
    UNION {Numbers(persistenceBuffers[k].messages) : k \in DOMAIN persistenceBuffers}

\* The messages in an upsert that has not settled.
InFlight == UNION {Numbers(w.messages) : w \in writes}

\* The messages of the batch writes that failed.
Dropped == (handedBatch \ landed) \ InFlight

\* A step that appends a message to a buffer holding one short of 50.
C25_FillingAppend ==
    /\ ingested' = ingested + 1
    /\ ingested' \in pushed'
    /\ LET key == getPersistenceKey(log'[ingested'].m)
       IN /\ key \in DOMAIN persistenceBuffers
          /\ Len(persistenceBuffers[key].messages) = 49

\* C25: a buffer never holds more than 50 messages; the append that brings
\* a buffer to 50 takes all 50 out of the map and hands them to one batch
\* write; a message appended while that write is pending is in a fresh
\* buffer, is in no pending write, and no appended message is lost: each
\* is in a buffer or has been handed to a batch write, never both.
C25_BufferBound ==
    /\ [](\A k \in DOMAIN persistenceBuffers :
            Len(persistenceBuffers[k].messages) <= 50)
    /\ [](/\ pushed = Buffered \cup (pushed \cap handedBatch)
          /\ Buffered \cap Handed = {}
          /\ ~doubleHanded)
    /\ [][C25_FillingAppend =>
            LET m == log'[ingested'].m
                key == getPersistenceKey(m)
            IN /\ key \notin DOMAIN persistenceBuffers'
               /\ \E w \in writes' \ writes :
                     /\ w.kind = "batch"
                     /\ w.messages = Append(persistenceBuffers[key].messages, m)
                     /\ Len(w.messages) = 50
                     /\ \A x \in writes' \ {w} :
                           Numbers(x.messages) \cap Numbers(w.messages) = {}]_vars

\* C25 witness: the batch of 50 that a filling append handed over is still
\* pending, and a message that arrived since is held in a fresh buffer.
C25_Witness ==
    \E w \in writes :
        /\ w.kind = "batch"
        /\ Len(w.messages) = 50
        /\ \E k \in DOMAIN persistenceBuffers :
              /\ persistenceBuffers[k].messages # <<>>
              /\ k = getPersistenceKey(w.messages[1])
              /\ \A i \in 1..Len(persistenceBuffers[k].messages) :
                    persistenceBuffers[k].messages[i].n > w.messages[50].n

\* C22: within one persistence scope the store writes are issued in
\* arrival order: when the write containing a message has been issued, so
\* has the write containing every message of the scope that arrived
\* earlier, in every interleaving of the awaited flushes and writes.
C22_WritesInArrivalOrder ==
    alwaysPersistMessages =>
        \A a, b \in 1..Len(log) :
            ( /\ a < b
              /\ getPersistenceKey(log[a].m) = getPersistenceKey(log[b].m)
              /\ b \in Handed ) => a \in Handed

\* C26: when the upsert of a batch fails, the code that awaited it goes on
\* (the message it handled is notified to the handlers without a
\* rejection, or gets its direct write), nothing is stored, the batch is
\* not put back into a buffer, and its messages are never handed to a
\* write again; the buffers go on as before.
C26_FailedBatchDropped ==
    /\ [](/\ Dropped \cap Buffered = {}
          /\ ~doubleHanded
          /\ pushed = Buffered \cup (pushed \cap handedBatch))
    /\ [][failures' = failures + 1 =>
            \A w \in writes \ writes' :
                w.kind = "batch" =>
                    /\ store' = store
                    /\ persistenceBuffers' = persistenceBuffers
                    /\ Numbers(w.messages) \cap landed' = {}
                    /\ Numbers(w.messages) \cap InFlight' = {}
                    /\ w.next[1] = "notify" =>
                          /\ w.next[2] \in DOMAIN notified'
                          /\ ~notified'[w.next[2]].rejected
                    /\ w.next[1] = "direct" =>
                          \E x \in writes' : x.messages = <<w.next[2]>>]_vars

\* C26 witness: a batch of a scope has failed and is in no buffer and no
\* write, and a message of the scope that arrived after it was buffered
\* and has landed with a later batch.
C26_Witness ==
    /\ failures > 0
    /\ \E n \in Dropped, later \in pushed \cap landed :
          /\ n < later
          /\ getPersistenceKey(log[n].m) = getPersistenceKey(log[later].m)

\* C27: a cleanup of the ring cache leaves in every list exactly its
\* messages younger than 24 hours, in their order, removes none that is
\* younger, and deletes a key whose list is left empty.
C27_ExpiryAfterOneDay ==
    [][CacheCleanup =>
        \A k \in DOMAIN messageCache :
            LET young == SelectSeq(messageCache[k],
                            LAMBDA m : now - m.timestamp < 24 * 60 * 60 * 1000)
            IN IF young = <<>>
               THEN k \notin DOMAIN messageCache'
               ELSE /\ k \in DOMAIN messageCache'
                    /\ messageCache'[k] = young]_vars

\* The key of the ring-cache list a stored message is inserted in.
CacheKeyOf(m) == <<m.platform, m.guildId>>

\* C28: every list of the ring cache has at most 1000 entries, the most
\* recently inserted first; an insertion puts the message at the head
\* and keeps the list as it was, but for the oldest-inserted entry of a
\* list that was full, leaves the other lists alone, and the handling of
\* the message goes on without a rejection.
C28_RingCacheBound ==
    /\ [](\A k \in DOMAIN messageCache :
            /\ Len(messageCache[k]) <= 1000
            /\ \A i \in 1..(Len(messageCache[k]) - 1) :
                  messageCache[k][i].n > messageCache[k][i + 1].n)
    /\ [][ingested' = ingested + 1 =>
            LET m == log'[ingested'].m
                k == CacheKeyOf(m)
                old == IF k \in DOMAIN messageCache THEN messageCache[k] ELSE <<>>
            IN /\ DOMAIN messageCache' = DOMAIN messageCache \cup {k}
               /\ messageCache'[k] = <<m>> \o SubSeq(old, 1, Min(Len(old), 999))
               /\ \A j \in DOMAIN messageCache \ {k} :
                     messageCache'[j] = messageCache[j]
               /\ m.n \in DOMAIN notified'
               /\ ~notified'[m.n].rejected]_vars

\* C28 witness: 1001 messages of a scope have been ingested and its list
\* holds the last 1000 of them, the first one dropped.
C28_Witness ==
    /\ ingested = 1001
    /\ \E k \in DOMAIN messageCache :
          /\ Len(messageCache[k]) = 1000
          /\ messageCache[k][1].n = 1001
          /\ messageCache[k][1000].n = 2

(***************************************************************************)
(* Properties of the persona trigger.                                      *)
(***************************************************************************)
TriggeredRuns(recordId) ==
    {a \in analyses : a.key = recordId /\ a.origin = "trigger"}

\* C4: whatever number of messages of a key reach the threshold while an
\* analysis the trigger started for the key is in flight, that analysis is
\* the only one: at most one triggered run per key is in flight, it is the
\* latest started, and its key is marked in personaProcessing.
C4_ExclusiveTrigger ==
    \A recordId \in DOMAIN runsStarted :
        /\ Cardinality(TriggeredRuns(recordId)) <= 1
        /\ \A a \in TriggeredRuns(recordId) :
              /\ a.run = runsStarted[recordId]
              /\ recordId \in personaProcessing
        /\ \A h \in heldBack : h[1] = recordId => h[2] \in 1..runsStarted[recordId]

\* C4 witness: while the first analysis of a key is in flight, a message
\* of the key reached the threshold on a second cache object of the key
\* and was held back, and that analysis is still the only run.
C4_Witness ==
    \E a \in analyses :
        /\ a.origin = "trigger"
        /\ <<a.key, a.run>> \in heldBack
        /\ runsStarted[a.key] = 1
        /\ Cardinality({i \in 1..Len(cacheObjs) : cacheObjs[i].key = a.key}) >= 2
        /\ \E i \in 1..Len(cacheObjs) :
              /\ cacheObjs[i].key = a.key
              /\ i # a.obj
              /\ cacheObjs[i].pendingMessages >= personaAnalysisMessageInterval

\* The cache objects built for a key, and the counter of object i in a
\* sequence of cache objects (0 before the object exists).
ObjectsOf(objs, recordId) == {i \in 1..Len(objs) : objs[i].key = recordId}
PendingOf(objs, i) == IF i \in 1..Len(objs) THEN objs[i].pendingMessages ELSE 0

\* With one cache object for a key and no analysis of the trigger in flight
\* for it, the counter is below the threshold.
C13_BelowThresholdAtRest ==
    \A recordId \in DOMAIN personaCache :
        (/\ ObjectsOf(cacheObjs, recordId) = {personaCache[recordId]}
         /\ recordId \notin personaProcessing)
        => cacheObjs[personaCache[recordId]].pendingMessages
              < personaAnalysisMessageInterval

\* What a step does to cache object i: the trigger starts an analysis on it
\* only with the message that is counted on it and brings the counter to
\* the threshold or beyond; when i is the only object of its key, exactly
\* one analysis starts with the message that brings the counter from N-1 to
\* N (no analysis of the trigger being in flight), none starts otherwise,
\* and the end of that analysis leaves the counter at 0.
C13_StepOf(i) ==
    LET recordId == cacheObjs'[i].key
        N == personaAnalysisMessageInterval
        before == PendingOf(cacheObjs, i)
        after == cacheObjs'[i].pendingMessages
        counted == after = before + 1
        started == {a \in analyses' \ analyses : a.obj = i /\ a.origin = "trigger"}
        ended == {a \in analyses \ analyses' : a.obj = i /\ a.origin = "trigger"}
        alone == ObjectsOf(cacheObjs', recordId) = {i}
    IN /\ started # {} => counted /\ after >= N
       /\ alone => Cardinality(started) =
                      IF counted /\ after = N /\ recordId \notin personaProcessing
                      THEN 1 ELSE 0
       /\ alone /\ ended # {} => after = 0

ReadStep == call' # call

\* C17: getUserPersona is read-only: its steps start no analysis and leave
\* the persona cache map, every pendingMessages counter, the processing set
\* and the persona table as they were.
C17_ReadOnlyLookup ==
    [][ReadStep => UNCHANGED <<personaCache, cacheObjs, personaProcessing,
                               analyses, personaTable>>]_vars

\* C17 witness: getUserPersona has answered with the persona of the table
\* for a key that is not in the persona cache map, and the key is still not
\* in the map.
C17_Witness ==
    /\ call # <<>>
    /\ call.fn = "getUserPersona"
    /\ call.from = "store"
    /\ call.found
    /\ call.key \notin DOMAIN personaCache

\* C20: at no time are two analyses in flight for one key, whether the
\* trigger or the manual refresh command started them (analyses of
\* different keys may be in flight together).
C20_ExclusiveOverAllPaths ==
    \A a, b \in analyses : a.key = b.key => a = b

PersonaKeys == {buildPersonaRecordId("discord", "bot1", u) : u \in PersonaTargets}

\* The counter the next live message of the key will add to.
PendingOfKey(recordId) ==
    IF recordId \in DOMAIN personaCache
    THEN cacheObjs[personaCache[recordId]].pendingMessages
    ELSE 0

\* The release half alone: a key marked in flight by the trigger is
\* eventually unmarked, however its analysis ends.
C21_EventuallyReleased ==
    \A k \in PersonaKeys :
        (k \in personaProcessing) ~> (k \notin personaProcessing)

\* C21: a key that the threshold trigger has marked in flight is eventually
\* unmarked with the pendingMessages of its user at 0, whether the analysis
\* returns or throws, and without any further message arriving.
C21_ReleasedAndReset ==
    \A k \in PersonaKeys :
        (k \in personaProcessing) ~>
            (k \notin personaProcessing /\ PendingOfKey(k) = 0)

\* C30: for a user of the persona exclusion list nothing is ever counted
\* or analysed: the key of the user has no cache entry and no cache
\* object, no select of ensurePersonaCache is awaited for it, it is not
\* marked in flight and no analysis runs for it, whether live messages of
\* the user arrive or the command is given for the user.
C30_ExcludedNeverAnalysed ==
    \A u \in personaUserFilter :
        LET recordId == buildPersonaRecordId("discord", "bot1", u)
        IN /\ recordId \notin DOMAIN personaCache
           /\ ObjectsOf(cacheObjs, recordId) = {}
           /\ \A l \in lookups : l.key = recordId => l.kind = "read"
           /\ recordId \notin personaProcessing
           /\ recordId \notin DOMAIN runsStarted
           /\ \A a \in analyses : a.key # recordId

\* C30 witness: live messages and a command have been handled, all of
\* them of or for the excluded user, since nothing has been looked up,
\* cached or analysed.
C30_Witness ==
    /\ personaUserFilter # {}
    /\ personaEvents >= 2
    /\ personaCalls >= 1
    /\ cacheObjs = <<>>
    /\ {l \in lookups : l.kind # "read"} = {}

(***************************************************************************)
(* Properties of mergePersona.                                             *)
(***************************************************************************)
ListFields == {"keyTraits", "interests", "evidence"}

Merged == call.fn = "mergePersona" /\ call.done /\ call.previous # <<>>

\* C16 as stated: each merged list is the new list whenever the new list
\* is non-empty, and the previous list unchanged when the new list is
\* empty.
C16_ListFallback_AsStated ==
    Merged =>
        \A field \in ListFields :
            call.result[1][field] =
                IF call.current[field] # <<>> THEN call.current[field]
                ELSE call.previous[1][field]

\* C16: each merged list is the new list without its empty entries
\* whenever that is non-empty, and otherwise the previous list without its
\* empty entries; with no previous profile the new profile is returned as
\* it is.
C16_ListFallback ==
    (call.fn = "mergePersona" /\ call.done) =>
        IF call.previous = <<>>
        THEN call.result[1] = call.current
        ELSE \A field \in ListFields :
                call.result[1][field] =
                    IF FilterBoolean(call.current[field]) # <<>>
                    THEN FilterBoolean(call.current[field])
                    ELSE FilterBoolean(call.previous[1][field])

\* C16 witness: a new interests list with an empty and a non-empty entry
\* has been merged over a previous profile with other interests.
C16_Witness ==
    /\ Merged
    /\ call.current.interests = <<"", "a">>
    /\ call.previous[1].interests = <<"b">>
    /\ call.result[1].interests = <<"a">>

(***************************************************************************)
(* Properties of the listener rules.                                       *)
(***************************************************************************)
\* The matching rule as the specification words it: platform and selfId
\* equal, and either the channelIds are equal or, a channelId being absent
\* on the rule or on the event, the guildIds are equal.
SpecifiedMatch(listener, session) ==
    /\ listener.enabled
    /\ listener.platform = session.platform
    /\ listener.selfId = session.selfId
    /\ \/ (session.channelId # "" /\ listener.channelId = session.channelId)
       \/ /\ (listener.channelId = "" \/ session.channelId = "")
          /\ session.guildId # ""
          /\ listener.guildId = session.guildId

\* C11: with the allow-all flag off, shouldListenToMessage answers true for
\* a scoped event exactly when some enabled rule matches as specified; a
\* rule whose channelId is present and differs from the event's present
\* channelId does not match through the guildId.
C11_RuleMatching ==
    (/\ call # <<>>
     /\ call.fn = "shouldListenToMessage"
     /\ ~enableAllGroupsByDefault
     /\ Scoped(call.session)) =>
        (call.result <=>
            \E i \in 1..Len(listenerGroups) :
                SpecifiedMatch(listenerGroups[i], call.session))

\* The rules of `rules` that are of another platform or bot identity than
\* the session, in order.
OfOthers(rules, session) ==
    SelectSeq(rules, LAMBDA r : r.platform # session.platform
                                \/ r.selfId # session.selfId)

\* C19: after the disable command in a group, with the allow-all flag off,
\* shouldListenToMessage is false for events of that group, whatever rules
\* there were, and no rule of another platform or bot identity is removed.
C19_DisableStopsListening ==
    (/\ call # <<>>
     /\ call.fn = "disable"
     /\ ~enableAllGroupsByDefault) =>
        /\ ~shouldListenToMessage(call.session, listenerGroups, FALSE)
        /\ OfOthers(listenerGroups, call.session) = OfOthers(call.before, call.session)

\* ======================================================================
\* One persona analysis in detail: the 用户画像 command from the cache
\* object it obtained, and runPersonaAnalysis from the messages it
\* collects to the profile it stores.
\* ======================================================================

\* Bound: entries of the evidence list the language model answers with.
MaxRefs == 2

\* utils: 24 * 60 * 60 * 1000, the milliseconds of a day
DayMs == 86400000

\* lastAnalysisAt of a record that has none
NoDate == 0

\* config.personaCacheLifetimeDays and config.personaMinMessages of the
\* deployments explored, and Date.now() at the command.
LifetimeDays == {0, 1, 2}
MinMessages == {10}
CommandTime == 3 * DayMs
AnalysisDates == {CommandTime - DayMs - 1, CommandTime - DayMs,
                  CommandTime - DayMs + 1}

\* The messages of the user the message service has: one with a native
\* message id, one stored without (its row has messageId null), and one
\* with no text element (an image).  `text` is what
\* h.select(elements, 'text').toString() gives for the message.
PersonaHistory ==
    << [id |-> "discord_n1", messageId |-> "n1", text |-> "hello"],
       [id |-> "discord_bot1_c1_2_r", messageId |-> "", text |-> "hi"],
       [id |-> "discord_n3", messageId |-> "n3", text |-> ""] >>

RECURSIVE PickFrom(_, _, _)
PickFrom(list, indices, i) ==
    IF i > Len(list) THEN <<>>
    ELSE (IF i \in indices THEN <<list[i]>> ELSE <<>>)
         \o PickFrom(list, indices, i + 1)

\* Earlier messages of the user, all with a native id and a text.
EarlierIds == <<"f1", "f2", "f3", "f4", "f5", "f6", "f7", "f8">>
EarlierRowIds == <<"discord_f1", "discord_f2", "discord_f3", "discord_f4",
                   "discord_f5", "discord_f6", "discord_f7", "discord_f8">>
Earlier(k) ==
    [i \in 1..k |-> [id |-> EarlierRowIds[i], messageId |-> EarlierIds[i],
                     text |-> "earlier"]]

\* What collectUserMessagesForPersona can return: messages of the user in
\* ascending time order, in numbers on both sides of personaMinMessages.
Collections ==
    { Earlier(k) \o PickFrom(PersonaHistory, S, 1) :
         k \in {0, Len(EarlierIds) - 1, Len(EarlierIds)},
         S \in SUBSET (1..Len(PersonaHistory)) }

\* The references the language model can put in persona.evidence: the
\* native id and the id of the first message, the native id of the image,
\* and a string that is the id of no message.
Refs == {"n1", "discord_n1", "n3", "null"}

\* The profile the cache holds before the analysis.
PreviousProfile(evidence) ==
    [summary |-> "old", keyTraits |-> <<"k">>, interests |-> <<"a">>,
     evidence |-> evidence, lastMergedFromHistory |-> FALSE]
PreviousProfiles == { PreviousProfile(<<>>), PreviousProfile(<<"old quote">>) }

\* The profile analyzeUserPersona resolves to; an answer with no evidence
\* field is taken as one with an empty list, the profile stored has no
\* evidence entry in either case.
AnsweredProfile(refs) ==
    [summary |-> "new", keyTraits |-> <<"k2">>, interests |-> <<"b">>,
     evidence |-> refs, lastMergedFromHistory |-> FALSE]
Answers == { <<AnsweredProfile(refs)>> : refs \in ListsOf(Refs, MaxRefs) }

\* isCacheExpiredByDays with an inclusive comparison.
isCacheExpiredByDays_inclusive(lastAnalysisAt, ttlDays, at) ==
    IF ttlDays <= 0 THEN TRUE
    ELSE IF lastAnalysisAt = NoDate THEN TRUE
    ELSE at - lastAnalysisAt >= ttlDays * DayMs

\* utils: isCacheExpiredByDays(lastAnalysisAt, ttlDays); `at` is Date.now()
isCacheExpiredByDays(lastAnalysisAt, ttlDays, at) ==
    IF ttlDays <= 0 THEN TRUE
    ELSE IF lastAnalysisAt = NoDate THEN TRUE
    ELSE at - lastAnalysisAt > ttlDays * DayMs

\* const shouldRefresh = force || cacheExpired || !cache.parsedPersona
ShouldRefresh(force, cacheExpired, parsedPersona) ==
    force \/ cacheExpired \/ parsedPersona = <<>>

\* A threshold test that would let every collection through.
TooFew_never(collected, minMessages) == FALSE

\* historyMessages.length < this.config.personaMinMessages
TooFew(collected, minMessages) == Len(collected) < minMessages

\* The property name under which messageIndex[message.messageId] = message
\* stores a message: the string of the value, "null" for a null messageId.
PropertyKey(messageId) == IF messageId = "" THEN "null" ELSE messageId

\* The loop that fills messageIndex: a message whose key (messageId || id)
\* is not yet a property is stored under its messageId and under its id.
RECURSIVE MessageIndex(_, _, _)
MessageIndex(collected, i, index) ==
    IF i > Len(collected) THEN index
    ELSE LET message == collected[i]
             key == IF message.messageId # "" THEN message.messageId
                    ELSE message.id
         IN  MessageIndex(collected, i + 1,
                 IF key \in DOMAIN index THEN index
                 ELSE MapSet(MapSet(index, PropertyKey(message.messageId),
                                    message),
                             message.id, message))

RECURSIVE ResolveEntries(_, _, _)
ResolveEntries(entries, index, i) ==
    IF i > Len(entries) THEN <<>>
    ELSE (IF entries[i] \in DOMAIN index
          THEN <<index[entries[i]].text>> ELSE <<>>)
         \o ResolveEntries(entries, index, i + 1)

\* attachEvidenceMessageIds: each reference that is a property of
\* messageIndex is replaced by the text of the message, the others are
\* left out.
attachEvidenceMessageIds(persona, collected) ==
    [persona EXCEPT !.evidence =
        ResolveEntries(persona.evidence,
                       MessageIndex(collected, 1, EmptyMap), 1)]

AnalysisKey == buildPersonaRecordId("discord", "bot1", "u1")

\* The command has its cache object from ensurePersonaCache: shouldRefresh
\* decides between runPersonaAnalysis and the cached profile.
RefreshDecision ==
    /\ call.pc = "decide"
    /\ LET cacheExpired == isCacheExpiredByDays(call.cache.lastAnalysisAt,
                                                 call.ttlDays, call.at)
       IN  call' = IF ShouldRefresh(call.force, cacheExpired,
                                    call.cache.parsedPersona)
                   THEN [call EXCEPT !.pc = "collect", !.ran = TRUE]
                   ELSE [call EXCEPT !.pc = "render"]
    /\ UNCHANGED <<cfgVars, store, fetchVars, liveVars, personaVars>>

\* runPersonaAnalysis: collectUserMessagesForPersona returns `collected`,
\* having asked the message service (`fetched`) unless there was no group
\* to ask.  Too few messages end the run; otherwise analyzeUserPersona is
\* called.
CollectReturn(collected, fetched) ==
    /\ call.pc = "collect"
    /\ ~fetched => collected = <<>>
    /\ call' = [call EXCEPT
                   !.collected = collected,
                   !.fetches = IF fetched THEN @ + 1 ELSE @,
                   !.pc = IF TooFew(collected, call.minMessages)
                          THEN "returned" ELSE "llm",
                   !.llmCalls = IF TooFew(collected, call.minMessages)
                                THEN @ ELSE @ + 1]
    /\ UNCHANGED <<cfgVars, store, fetchVars, liveVars, personaVars>>

\* analyzeUserPersona settles: it throws, resolves to null (`answer` is
\* <<>>), or resolves to a profile, which gets its evidence attached, is
\* merged into the cached one and handed to persistPersona up to its
\* upsert.
AnalyzeSettle(answer, throws) ==
    /\ call.pc = "llm"
    /\ call' =
         IF throws THEN [call EXCEPT !.pc = "threw"]
         ELSE IF answer = <<>> THEN [call EXCEPT !.answer = <<>>, !.pc = "returned"]
         ELSE LET personaWithEvidence ==
                      attachEvidenceMessageIds(answer[1], call.collected)
                  merged == mergePersona(call.cache.parsedPersona,
                                         personaWithEvidence)
              IN  [call EXCEPT
                      !.answer = answer,
                      !.cache.parsedPersona = <<merged>>,
                      !.cache.persona = <<merged>>,
                      !.cache.lastAnalysisAt = call.at,
                      !.cache.updatedAt = call.at,
                      !.upserts = @ + 1,
                      !.pc = "persist"]
    /\ UNCHANGED <<cfgVars, store, fetchVars, liveVars, personaVars>>

\* The upsert of persistPersona settles.
PersistSettle(ok) ==
    /\ call.pc = "persist"
    /\ call' = [call EXCEPT !.pc = IF ok THEN "returned" ELSE "threw"]
    /\ personaTable' = IF ok THEN personaTable \cup {AnalysisKey}
                       ELSE personaTable
    /\ UNCHANGED <<personaAnalysisMessageInterval, personaCache, cacheObjs,
                   personaProcessing, lookups, analyses, runsStarted,
                   heldBack, personaEvents, personaCalls>>
    /\ UNCHANGED <<cfgVars, store, fetchVars, liveVars>>

\* After runPersonaAnalysis, or with the cached profile.  The trigger's
\* finally unmarks the key and zeroes the counter.  The command answers
\* that there is too little to go on when there is still no profile, that
\* the analysis failed when something threw (the renderer included:
\* `rendered` is whether renderUserPersona gave an image), and with the
\* rendered profile otherwise, having zeroed the counter after a refresh.
AnalysisEnd(rendered) ==
    /\ call.pc \in {"returned", "threw", "render"}
    /\ call' =
         IF call.origin = "trigger"
         THEN [call EXCEPT !.pc = "done", !.cache.pendingMessages = 0]
         ELSE IF call.pc = "threw"
         THEN [call EXCEPT !.pc = "done", !.reply = "failed"]
         ELSE IF call.cache.parsedPersona = <<>>
         THEN [call EXCEPT !.pc = "done", !.reply = "insufficient"]
         ELSE [call EXCEPT
                  !.pc = "done",
                  !.reply = IF rendered THEN "profile" ELSE "failed",
                  !.cache.pendingMessages =
                      IF call.pc = "returned" THEN 0 ELSE @]
    /\ personaProcessing' = IF call.origin = "trigger"
                            THEN personaProcessing \ {AnalysisKey}
                            ELSE personaProcessing
    /\ UNCHANGED <<personaAnalysisMessageInterval, personaCache, cacheObjs,
                   lookups, analyses, runsStarted, heldBack, personaEvents,
                   personaCalls, personaTable>>
    /\ UNCHANGED <<cfgVars, store, fetchVars, liveVars>>

\* The cache objects a command or a trigger can have in hand: a record
\* with no persona, or one with the profile and the date of its last
\* analysis.
AnalysisCaches ==
    { [pendingMessages |-> n, parsedPersona |-> <<>>, persona |-> <<>>,
       lastAnalysisAt |-> NoDate, updatedAt |-> NoDate] : n \in 0..1 }
    \cup
    { [pendingMessages |-> n, parsedPersona |-> <<q>>, persona |-> <<q>>,
       lastAnalysisAt |-> d, updatedAt |-> d] :
          n \in 0..1, q \in PreviousProfiles, d \in AnalysisDates }

AnalysisCall(origin, force, ttlDays, minMessages, cache) ==
    [fn |-> "runPersonaAnalysis", origin |-> origin, force |-> force,
     ttlDays |-> ttlDays, minMessages |-> minMessages, at |-> CommandTime,
     pc |-> IF origin = "command" THEN "decide" ELSE "collect",
     ran |-> origin = "trigger",
     before |-> cache, cache |-> cache,
     collected |-> <<>>, answer |-> <<>>,
     fetches |-> 0, llmCalls |-> 0, upserts |-> 0, reply |-> ""]

InitAnalysis ==
    /\ \E cache \in AnalysisCaches, minMessages \in MinMessages :
          /\ \/ /\ \E force \in BOOLEAN, ttlDays \in LifetimeDays :
                      call = AnalysisCall("command", force, ttlDays,
                                          minMessages, cache)
                /\ personaProcessing = {}
             \/ /\ cache.pendingMessages = 1
                /\ call = AnalysisCall("trigger", FALSE, 1, minMessages, cache)
                /\ personaProcessing = {AnalysisKey}
          /\ personaTable = IF cache.persona = <<>> THEN {} ELSE {AnalysisKey}
    /\ listenerGroups = <<Rule("discord")>>
    /\ bots = {BotOf("discord", FALSE, FALSE)}
    /\ enableAllGroupsByDefault = FALSE
    /\ alwaysPersistMessages = FALSE
    /\ userFilter = {}
    /\ personaUserFilter = {}
    /\ store = {}
    /\ FetchIdle
    /\ LiveIdle
    /\ personaAnalysisMessageInterval = 1
    /\ personaCache = EmptyMap
    /\ cacheObjs = <<>>
    /\ lookups = {}
    /\ analyses = {}
    /\ runsStarted = EmptyMap
    /\ heldBack = {}
    /\ personaEvents = 0
    /\ personaCalls = 0

NextAnalysis ==
    \/ RefreshDecision
    \/ \E collected \in Collections, fetched \in BOOLEAN :
            CollectReturn(collected, fetched)
    \/ \E answer \in {<<>>} \cup Answers, throws \in BOOLEAN :
            AnalyzeSettle(answer, throws)
    \/ \E ok \in BOOLEAN : PersistSettle(ok)
    \/ \E rendered \in BOOLEAN : AnalysisEnd(rendered)

SpecAnalysis == InitAnalysis /\ [][NextAnalysis]_vars

\* ======================================================================
\* Properties of one persona analysis.
\* ======================================================================

\* The record the command found is stale in the words of the
\* specification: no lastAnalysisAt, or one older than
\* personaCacheLifetimeDays days, a lifetime of 0 or less making every
\* record stale.
Stale ==
    \/ call.ttlDays <= 0
    \/ call.before.lastAnalysisAt = NoDate
    \/ call.at - call.before.lastAnalysisAt > call.ttlDays * DayMs

\* C31: a manual persona request runs runPersonaAnalysis exactly when it
\* is forced, no parsed profile is cached, or the record is stale,
\* whatever pendingMessages is; in every other case the cached profile is
\* what is rendered, with no history fetch, no call of the language model
\* and no write to the persona table.
C31_ManualRefreshRule ==
    (call.origin = "command" /\ call.pc # "decide") =>
        /\ call.ran <=> (\/ call.force
                         \/ call.before.parsedPersona = <<>>
                         \/ Stale)
        /\ ~call.ran =>
              /\ call.fetches = 0
              /\ call.llmCalls = 0
              /\ call.upserts = 0
              /\ call.cache = call.before
              /\ personaTable = {AnalysisKey}
              /\ call.pc = "done" => call.reply \in {"profile", "failed"}

\* C31 witness: a command without force, for a user with messages pending
\* whose profile was stored exactly personaCacheLifetimeDays days ago, has
\* answered with the cached profile.
C31_Witness ==
    /\ call.origin = "command"
    /\ call.pc = "done"
    /\ ~call.force
    /\ ~call.ran
    /\ call.ttlDays = 1
    /\ call.at - call.before.lastAnalysisAt = DayMs
    /\ call.before.pendingMessages = 1
    /\ call.reply = "profile"

\* The entries of a list.
Entries(list) == { list[i] : i \in 1..Len(list) }

\* The references the language model returned, and whether a collected
\* message has the reference as its native message id or as its id.
Returned == IF call.answer = <<>> THEN {} ELSE Entries(call.answer[1].evidence)
RefersTo(ref, message) == message.messageId = ref \/ message.id = ref
Resolvable(ref) == \E message \in Entries(call.collected) : RefersTo(ref, message)

\* C32: after an analysis, every entry of the evidence list of the cached
\* and persisted profile is the rendered text of a collected message whose
\* native message id or id is a reference the language model returned, or,
\* only when no returned reference resolved, an entry of the evidence of
\* the previous profile; a reference that did not resolve is no entry.
C32_NoFabricatedEvidence ==
    (call.answer # <<>>) =>
        \A entry \in Entries(call.cache.parsedPersona[1].evidence) :
            /\ \/ \E ref \in Returned, message \in Entries(call.collected) :
                     RefersTo(ref, message) /\ entry = message.text
               \/ /\ \A ref \in Returned : ~Resolvable(ref)
                  /\ call.before.parsedPersona # <<>>
                  /\ entry \in Entries(call.before.parsedPersona[1].evidence)
            /\ \A ref \in Returned : ~Resolvable(ref) => entry # ref

\* C33: when fewer messages than personaMinMessages were collected,
\* runPersonaAnalysis has ended without throwing, with no call of the
\* language model and no write to the persona table, and the cached
\* profile and the record's persona, lastAnalysisAt and updatedAt are what
\* they were.
C33_TooFewMessagesChangeNothing ==
    (/\ call.ran
     /\ call.pc \notin {"decide", "collect"}
     /\ Len(call.collected) < call.minMessages) =>
        /\ call.pc \in {"returned", "done"}
        /\ call.llmCalls = 0
        /\ call.upserts = 0
        /\ personaTable = (IF call.before.persona = <<>> THEN {}
                           ELSE {AnalysisKey})
        /\ call.cache.parsedPersona = call.before.parsedPersona
        /\ call.cache.persona = call.before.persona
        /\ call.cache.lastAnalysisAt = call.before.lastAnalysisAt
        /\ call.cache.updatedAt = call.before.updatedAt

\* C33 witness: runPersonaAnalysis has returned for a user with a cached
\* profile after the message service was asked and gave one message less
\* than personaMinMessages.
C33_Witness ==
    /\ call.ran
    /\ call.pc = "returned"
    /\ call.fetches = 1
    /\ Len(call.collected) = call.minMessages - 1
    /\ call.before.parsedPersona # <<>>

\* C34: with personaAnalysisMessageInterval 0 no automatic analysis is
\* ever started and no pendingMessages counter is ever incremented,
\* whatever live messages arrive: no select is awaited for a message, no
\* key is marked as processing, no run was started by the trigger, and
\* every cache object has pendingMessages 0.
C34_IntervalZeroDisables ==
    personaAnalysisMessageInterval = 0 =>
        /\ \A l \in lookups : l.kind # "message"
        /\ \A a \in analyses : a.origin # "trigger"
        /\ personaProcessing = {}
        /\ runsStarted = EmptyMap
        /\ heldBack = {}
        /\ \A i \in 1..Len(cacheObjs) : cacheObjs[i].pendingMessages = 0

\* C34 witness: with the interval 0, as many live messages as the
\* exploration has were delivered and a command has put a cache object for
\* a user in the persona cache.
C34_Witness ==
    /\ personaAnalysisMessageInterval = 0
    /\ personaEvents = MaxPersonaEvents
    /\ DOMAIN personaCache # {}

\* ======================================================================
\* Properties of the live path in deployments listening in two channels.
\* ======================================================================

\* C35: two ingested messages of one platform with the same native message
\* id but of different channels or of different bot identities have
\* different StoredMessage ids, so that the upsert of one leaves the row of
\* the other in the table.
C35_DistinctMessagesDistinctIds ==
    \A j \in 1..Len(log) : \A k \in (j+1)..Len(log) :
        LET a == log[j].m
            b == log[k].m
        IN  (/\ a.platform = b.platform
             /\ a.messageId # 0
             /\ a.messageId = b.messageId
             /\ (a.channelId # b.channelId \/ a.selfId # b.selfId)) =>
                /\ a.id # b.id
                /\ (j \in landed /\ k \in landed) =>
                      \E r \in store : r.id = a.id /\ r.channelId = a.channelId

\* C36: no increment of pendingMessages is lost on first access: every
\* PersonaCache object that counts messages is the one the persona cache
\* map holds for its key, so that the messages of a user that arrived
\* while the select of ensurePersonaCache was pending are all counted on
\* the entry of the map.
C36_CountedOnTheMapEntry ==
    \A i \in 1..Len(cacheObjs) :
        cacheObjs[i].pendingMessages > 0 =>
            /\ cacheObjs[i].key \in DOMAIN personaCache
            /\ personaCache[cacheObjs[i].key] = i

\* C37: right after a live message of a scope has been ingested,
\* getRecentMessages called with the guildId and channelId of that scope
\* returns it as its first element, for a scope with a guild and for a
\* channel-only scope alike.
C37_RingCacheRoundTrip ==
    (lastEvent # <<>> /\ lastEvent.handled) =>
        LET recent == getRecentMessages(lastEvent.session.guildId,
                                        lastEvent.session.channelId, 100)
        IN  /\ recent # <<>>
            /\ recent[1] = log[Len(log)].m

\* ======================================================================
\* Properties of the choice of the platform of a fetch.
\* ======================================================================

\* The rules of the table that match the guildId and channelId of the
\* filter, a field the filter leaves out matching every rule.
MatchingRules ==
    { i \in 1..Len(listenerGroups) :
        /\ (filter.guildId = "" \/ listenerGroups[i].guildId = filter.guildId)
        /\ (filter.channelId = "" \/ listenerGroups[i].channelId = filter.channelId) }

\* C38: when no listener rule matches the filter, getHistoricalMessages
\* consults the database and nothing else, whatever bots are online and
\* whatever the allow-all flag; when rules match, the first of them in
\* table order gives the platform and the selfId: onebot paging for
\* platform onebot, generic paging when the bot of that platform and selfId
\* has getMessageList, the database otherwise.
C38_RulesDecideThePlatform ==
    fetchPc # "idle" =>
        IF MatchingRules = {}
        THEN source = {"database"}
        ELSE LET first == CHOOSE i \in MatchingRules :
                              \A j \in MatchingRules : i <= j
                 rule == listenerGroups[first]
             IN  source =
                   { IF rule.platform = "onebot" THEN "onebot"
                     ELSE IF \E b \in bots : /\ b.platform = rule.platform
                                             /\ b.selfId = rule.selfId
                                             /\ b.getMessageList
                          THEN "botapi"
                     ELSE "database" }

\* C38 witness: in allow-all mode with an empty rule table and an online
\* onebot bot that has getMessageList too, a call has returned rows of the
\* table.
C38_Witness ==
    /\ listenerGroups = <<>>
    /\ enableAllGroupsByDefault
    /\ \E b \in bots : b.platform = "onebot" /\ b.getMessageList
    /\ fetchPc = "done"
    /\ outcome = "resolved"
    /\ source = {"database"}
    /\ result # <<>>

\* ======================================================================
\* Properties of the live path with always-persist off.
\* ======================================================================

\* The bot of a stored message has no getMessageList.
NoPagingBot(m) ==
    \A b \in bots :
        (b.platform = m.platform /\ b.selfId = m.selfId) => ~b.getMessageList

\* C39: with alwaysPersistMessages off, an ingested message has been
\* handed to an upsert exactly when its platform is not onebot and its bot
\* has no getMessageList, from the step that ingested it on; every upsert
\* carries one message and is a single write, no message is buffered or
\* written in a batch, and the activity statistics and the persistence
\* buffers are empty.
C39_DirectWritesOnly ==
    ~alwaysPersistMessages =>
        /\ activityStats = EmptyMap
        /\ persistenceBuffers = EmptyMap
        /\ pushed = {}
        /\ handedBatch = {}
        /\ \A w \in writes : w.kind = "single" /\ Len(w.messages) = 1
        /\ \A k \in 1..Len(log) :
              (log[k].m.n \in handedSingle)
                  <=> (log[k].m.platform # "onebot" /\ NoPagingBot(log[k].m))

\* C39 witness: always-persist is off, a discord bot without
\* getMessageList has ingested a message and its single write has landed,
\* after the deployment was disposed.
C39_Witness ==
    /\ ~alwaysPersistMessages
    /\ disposed
    /\ \E k \in 1..Len(log) :
          /\ log[k].m.platform = "discord"
          /\ NoPagingBot(log[k].m)
          /\ log[k].m.n \in landed
          /\ \E r \in store : r.id = log[k].m.id

====
